---- MODULE Spec2Model ----
(***************************************************************************)
(* Verification model of goasm-vscode (a lensm fork): the jump-arc layout, *)
(* the instruction decoder, the source-block builder, the HTTP server's    *)
(* open-file registry (server.go) and the reload channels of FileUI.Run    *)
(* (fileui.go).  Each component has its own specification over the shared  *)
(* variables; the variables of the other components stay at their initial  *)
(* values.                                                                 *)
(***************************************************************************)
EXTENDS Integers, Sequences, FiniteSets, TLC

\* ------------------------------------------------------------------ bounds
\* Highest instruction address of the function laid out (addresses 0..MaxPC).
MaxPC == 4
\* Most intra-function jumps in the function laid out.
MaxArcs == 3
\* Most bytes of the function decoded, and its highest start address.
MaxLen == 4
MaxStart == 1
\* Source-block builder: most instructions, last source line, largest context.
MaxInsts == 3
MaxLine == 7
MaxCtx == 1
MaxDisk == 2
MaxPanels == 3
MaxColumns == 2
MaxXref == 2
MaxLane == 1
MaxEntries == 3
MaxEvents == 2
MaxPathLen == 4
MaxAddr == 5
\* HTTP server: handler goroutines running at once, requests served in all.
MaxHandlers == 2
MaxReqs == 4
\* FileUI.Run: results the watcher goroutine produces, distinct modification
\* times os.Stat reports.
MaxResults == 3
MaxModTime == 2

VARIABLES
  \* Jump-arc layout (spec 4.5)
  jumps,          \* pc -> target pc of the intra-function jump at pc, or NoRef
  laPending,      \* source pcs of the arcs the sweep has not placed yet
  lanes,          \* lane index (from 1) -> source pc of the arc it holds, or NoRef
  refStack,       \* pc -> lane assigned to the arc at pc (0 when none)
  maxJumpLanes,   \* number of lanes of the function
  laPc,           \* "sweep" | "done" | "off"
  \* Instruction decoder (spec 4.3)
  code,           \* the bytes of the function, [functionStart, functionEnd)
  functionStart,  \* address of the first byte
  decPc,          \* the decode loop's pc
  insts,          \* the instructions emitted so far: [pc, size, text]
  decState,       \* "decode" | "done" | "off"
  \* Source-block builder (spec 4.6)
  srcInsts,       \* per instruction its resolved [file, line] ("" and 0: unknown)
  contextLines,   \* Options.contextLines
  fileLen,        \* file -> number of lines of its source (0: missing/unreadable)
  sources,        \* file -> the SourceBlocks built for it
  sbTodo,         \* referenced files whose blocks are not built yet
  sbState,        \* "build" | "done" | "off"
  \* HTTP server (server.go)
  activeFiles,    \* Server.activeFiles: path -> Executable id, or NoExe
  rwReaders,      \* handlers holding activeFilesMutex for reading
  rwWriter,       \* the handler holding it for writing, or 0
  rwPending,      \* handlers blocked in Lock()
  options,        \* Server.options.Context
  nextExe,        \* id of the next Executable a loader creates
  closed,         \* Executables on which Close() was called
  hKind,          \* per handler goroutine: the request it serves
  hPath,          \*   the path of the request
  hPc,            \*   where it is in its handler
  hFile,          \*   its local variable file
  hCtx,           \*   its local options.Context
  resp,           \*   the response it wrote last: [code, body]
  started,        \* requests accepted so far
  sinceClose,     \* path -> closed with success and not stored since
  srvOn,          \* TRUE in the server specification
  hFilter,        \* per handler goroutine: its filter parameter
  errSeen,        \* <<kind, path>> of the requests answered "invalid filter"
                  \*   (kind "funcs") or "failed to load file" (kind "load")
  hLate,          \* per handler: its <<kind, path>> was in errSeen when its
                  \*   request arrived
  closeErr,       \* Executables whose Close() returned an error
  live,           \* paths stored by a load and not deleted by a close since
  holders,        \* path -> load requests answered 200 or 201 since its
                  \*   entry was last deleted (counted up to 2)
  orphans,        \* paths deleted by a close while two loads held them, and
                  \*   not stored since
  \* FileUI.Run (fileui.go)
  serverMode,     \* ui.Config.ServerURL != ""
  watch,          \* ui.Config.Watch
  fileLoaded,     \* channel of capacity 1: ids of the Executables in it
  fileLoadError,  \* channel of capacity 1: ids of the errors in it
  wPc,            \* watcher goroutine: "load" | "stat" | "drain" | "send" |
                  \*   "check" | "wait" | "done" | "off"
  wRes,           \* the arguments of its loadFinished call: [ok, id]
  lastModTime,    \* its local lastModTime (0: the zero time)
  statFailed,     \* its last os.Stat returned an error
  produced,       \* results produced so far; a result's id is its rank
  received,       \* ids of the results the consumer loop received, in order
  uiFile,         \* ui.File (0: nil)
  uiLoadError,    \* ui.LoadError (0: nil)
  uiClosed,       \* Executables SetFile closed
  exited,         \* Run returned (the channel exited is closed)
  wLoaded,        \* the watcher's last poll called the loader
  wMt,            \* the modification time its last os.Stat reported (0: none)
  wLatest,        \* ids of the last file and the last error whose
                  \*   loadFinished call completed: [file, err]
  uiItems,        \* ui.Funcs: the names of the functions listed
  uiSelected,     \* ui.Funcs.Selected ("": none)
  uiSelItem,      \* ui.Funcs.SelectedItem: a Func [exe, name]
  uiCode,         \* ui.Code.Code: the Code of function name of Executable exe
  uiShown,        \* what the last frame drew since the last Invalidate:
                  \*   [error, code]
  uiFault,        \* Run panicked on a nil *disasm.Code
  \* HTTP client (Client, NetworkFile, NetworkFunc)
  cPc,            \* "call" | "sent" | "server" | "replied" | "done" | "off"
  cOp,            \* "load" (NetworkFunc.Load) | "close" (NetworkFile.Close) |
                  \*   "open" (Client.LoadFile)
  cName,          \* NetworkFunc.name
  cCtx,           \* opt.Context of the caller
  cQuery,         \* the context parameter of the request ("": none)
  cDefault,       \* the server's options.Context
  cRegistered,    \* the server has the file's path in its registry
  cNet,           \* what httpClient returned: [err, status, body]
  cCause,         \* what happened to the call
  cErr,           \* the error the Client method returned
  cRet,           \* what the caller got: the *Code of Load, the error of Close
  cDisk,          \* the version of the executable on disk at the file's path
  cExe,           \* the version the server's Executable was loaded from
                  \*   (0: the path is not registered)
  cSeen,          \* the version the last function code came from (0: none)
  cReopened,      \* a load-by-path succeeded since the file changed last
  \* VS Code extension (GoASMViewProvider)
  currentPanel,   \* GoASMViewProvider.currentPanel (0: undefined), else the
                  \*   id of its _panel
  panels,         \* webview panel id -> "none" | "open" | "disposed"
  panelColumn,    \* webview panel id -> the view column it is shown in
  disposables,    \* webview panel id -> length of its provider's _disposables
  nextPanel,      \* id of the panel createWebviewPanel returns next
  activeColumn,   \* vscode.window.activeTextEditor?.viewColumn (0: undefined)
  revealed,       \* the panel the last show-assembly command revealed (0: none)
  \* reference resolver
  xStart,         \* functionStart of the function resolved
  xSizes,         \* the sizes of its decoded instructions, in order
  xOps,           \* [kind, target] of the instructions classified so far
  xOut,           \* [refPC, refOffset, refStack, call] of the same
  xState,         \* "resolve" | "lanes" | "done" | "off"
  \* line-table resolver
  lnTable,        \* the table: entries [address, size, file, line], sorted
  lnQuery,        \* the address looked up
  lnLo, lnHi,     \* the binary search: the entry sought is in lnLo .. lnHi
  lnResult,       \* the lookup's result
  lnState,        \* "search" | "done" | "off"
  \* FileUI.Run: the window-event goroutine and the main loop's event case
  pumpPc,         \* event goroutine: "event" (in w.Event()) | "send" (at
                  \*   events <- ev) | "ack" (at <-acks) | "acked" | "done" |
                  \*   "off"
  pumpEv,         \* its local ev: "frame" | "other" | "destroy" ("": none)
  mainPc,         \* main loop: "select" | "handle" | "ack" (at acks <- ) |
                  \*   "return" | "returned" | "panic"
  evFetched,      \* events w.Event() returned
  evSent,         \* events received from the channel events
  evAcked,        \* acknowledgements received from the channel acks
  \* One NetworkFile from NewNetworkFile to Close, with the server's router
  rtPath,         \* NetworkFile.path: a sequence of characters
  rtKeys,         \* the keys of Server.activeFiles
  rtPc,           \* "new" | "open" | "sent" | "answered" | "closed" | "off"
  rtMethod,       \* the method of the request in flight
  rtWire,         \* its escaped path, as sent ("%2F" is one element)
  rtStatus,       \* the status of the last response
  rtLoc,          \* the Location header of the last response
  rtErr           \* Close returned an error

layoutVars == <<jumps, laPending, lanes, refStack, maxJumpLanes, laPc>>
decodeVars == <<code, functionStart, decPc, insts, decState>>

blockVars == <<srcInsts, contextLines, fileLen, sources, sbTodo, sbState>>

serverVars == <<activeFiles, rwReaders, rwWriter, rwPending, options, nextExe,
                closed, hKind, hPath, hPc, hFile, hCtx, resp, started,
                sinceClose, srvOn, hFilter, errSeen, hLate, closeErr, live, holders, orphans>>

uiVars == <<serverMode, watch, fileLoaded, fileLoadError, wPc, wRes,
            lastModTime, produced, received, uiFile, uiLoadError, uiClosed,
            exited, statFailed, wLoaded, wMt, wLatest, uiItems, uiSelected,
            uiSelItem, uiCode, uiShown, uiFault>>

pollVars == <<wLoaded, wMt>>
viewVars == <<uiItems, uiSelected, uiSelItem, uiCode, uiShown, uiFault>>

clientVars == <<cPc, cOp, cName, cCtx, cQuery, cDefault, cRegistered, cNet,
                cCause, cErr, cRet, cDisk, cExe, cSeen, cReopened>>

diskVars == <<cDisk, cExe, cSeen, cReopened>>

routeVars == <<rtPath, rtKeys, rtPc, rtMethod, rtWire, rtStatus, rtLoc, rtErr>>

pumpVars == <<pumpPc, pumpEv, mainPc, evFetched, evSent, evAcked>>

lineVars == <<lnTable, lnQuery, lnLo, lnHi, lnResult, lnState>>

xrefVars == <<xStart, xSizes, xOps, xOut, xState>>

panelVars == <<currentPanel, panels, panelColumn, disposables, nextPanel,
               activeColumn, revealed>>

vars == <<layoutVars, decodeVars, blockVars, serverVars, uiVars, clientVars, panelVars, xrefVars, lineVars, pumpVars, routeVars>>

notLayout == <<decodeVars, blockVars, serverVars, uiVars, clientVars, panelVars, xrefVars, lineVars, pumpVars, routeVars>>
notDecode == <<layoutVars, blockVars, serverVars, uiVars, clientVars, panelVars, xrefVars, lineVars, pumpVars, routeVars>>
notBlocks == <<layoutVars, decodeVars, serverVars, uiVars, clientVars, panelVars, xrefVars, lineVars, pumpVars, routeVars>>
notServer == <<layoutVars, decodeVars, blockVars, uiVars, clientVars, panelVars, xrefVars, lineVars, pumpVars, routeVars>>
notUI == <<layoutVars, decodeVars, blockVars, serverVars, clientVars, panelVars, xrefVars, lineVars, pumpVars, routeVars>>
notClient == <<layoutVars, decodeVars, blockVars, serverVars, uiVars, panelVars, xrefVars, lineVars, pumpVars, routeVars>>
notPanel == <<layoutVars, decodeVars, blockVars, serverVars, uiVars, clientVars, xrefVars, lineVars, pumpVars, routeVars>>
notXref == <<layoutVars, decodeVars, blockVars, serverVars, uiVars, clientVars, panelVars, lineVars, pumpVars, routeVars>>
notLines == <<layoutVars, decodeVars, blockVars, serverVars, uiVars, clientVars, panelVars, xrefVars, pumpVars, routeVars>>
notPump == <<layoutVars, decodeVars, blockVars, serverVars, uiVars, clientVars, panelVars, xrefVars, lineVars, routeVars>>
notRun == <<layoutVars, decodeVars, blockVars, serverVars, clientVars, panelVars, xrefVars, lineVars, routeVars>>
notRoute == <<layoutVars, decodeVars, blockVars, serverVars, uiVars, clientVars, panelVars, xrefVars, lineVars, pumpVars>>

NoRef == -1

Min2(a, b) == IF a <= b THEN a ELSE b
Max2(a, b) == IF a >= b THEN a ELSE b

\* ------------------------------------------------------- jump-arc layout
PCs == 0 .. MaxPC

\* The arcs of a function: its intra-function jumps.  A jump to the
\* instruction itself has refOffset = 0, the unpopulated value, and is no arc.
ArcsOf(j) == {pc \in PCs : j[pc] # NoRef}

\* The interval [min(pc, refPC), max(pc, refPC)] an arc spans.
ArcLo(j, pc) == Min2(pc, j[pc])
ArcHi(j, pc) == Max2(pc, j[pc])

Disjoint(j, a, b) == ArcHi(j, a) < ArcLo(j, b) \/ ArcHi(j, b) < ArcLo(j, a)
Contains(j, a, b) == ArcLo(j, a) <= ArcLo(j, b) /\ ArcHi(j, b) <= ArcHi(j, a)

\* Neither fully containing the other nor wholly disjoint.
ProperlyOverlap(j, a, b) ==
  /\ ~Disjoint(j, a, b)
  /\ ~Contains(j, a, b)
  /\ ~Contains(j, b, a)

\* Sort order of the sweep: interval start, ties shorter interval first.
ArcBefore(j, a, b) ==
  \/ ArcLo(j, a) < ArcLo(j, b)
  \/ /\ ArcLo(j, a) = ArcLo(j, b)
     /\ ArcHi(j, a) - ArcLo(j, a) < ArcHi(j, b) - ArcLo(j, b)

\* A lane is retired when the interval it holds ends at or before the new
\* arc's start and does not properly overlap it.
RetiredDropOverlap(j, held, new) == ArcHi(j, held) <= ArcLo(j, new)
Retired(j, held, new) ==
  /\ ArcHi(j, held) <= ArcLo(j, new)
  /\ ~ProperlyOverlap(j, held, new)

\* The lanes after retiring for the new arc.
RetireLanes(j, ls, new) ==
  [i \in 1 .. Len(ls) |->
     IF ls[i] # NoRef /\ Retired(j, ls[i], new) THEN NoRef ELSE ls[i]]

FreeLanes(ls) == {i \in 1 .. Len(ls) : ls[i] = NoRef}

SetMin(S) == CHOOSE x \in S : \A y \in S : x <= y
SetMax(S) == CHOOSE x \in S : \A y \in S : x >= y

\* The lane (from 0) the new arc gets: the smallest free lane, else a new one.
PickLaneAlwaysNew(ls) == Len(ls)
PickLaneSkipsOne(ls) ==
  IF FreeLanes(ls) # {} THEN SetMin(FreeLanes(ls)) - 1 ELSE Len(ls) + 1
PickLane(ls) == IF FreeLanes(ls) # {} THEN SetMin(FreeLanes(ls)) - 1 ELSE Len(ls)

PlaceArc(ls, lane, pc) ==
  IF lane < Len(ls) THEN [ls EXCEPT ![lane + 1] = pc] ELSE Append(ls, pc)

LayoutInputs ==
  {j \in [PCs -> PCs \cup {NoRef}] :
     /\ \A pc \in PCs : j[pc] # pc
     /\ Cardinality(ArcsOf(j)) <= MaxArcs}

LayoutInit ==
  /\ jumps \in LayoutInputs
  /\ laPending = ArcsOf(jumps)
  /\ lanes = <<>>
  /\ refStack = [pc \in PCs |-> 0]
  /\ maxJumpLanes = 0
  /\ laPc = "sweep"

\* One step of the sweep: the next arc in sort order (any of those that tie).
LayoutStep ==
  /\ laPc = "sweep"
  /\ \E a \in laPending :
       /\ \A b \in laPending : ~ArcBefore(jumps, b, a)
       /\ LET ls   == RetireLanes(jumps, lanes, a)
              lane == PickLane(ls)
          IN /\ lanes' = PlaceArc(ls, lane, a)
             /\ refStack' = [refStack EXCEPT ![a] = lane]
       /\ laPending' = laPending \ {a}
  /\ UNCHANGED <<jumps, maxJumpLanes, laPc>>
  /\ UNCHANGED notLayout

\* The sweep is over: the lane count of the function.
LayoutFinish ==
  /\ laPc = "sweep"
  /\ laPending = {}
  /\ maxJumpLanes' = Len(lanes)
  /\ laPc' = "done"
  /\ UNCHANGED <<jumps, laPending, lanes, refStack>>
  /\ UNCHANGED notLayout

LayoutOff ==
  /\ jumps = [pc \in PCs |-> NoRef]
  /\ laPending = {}
  /\ lanes = <<>>
  /\ refStack = [pc \in PCs |-> 0]
  /\ maxJumpLanes = 0
  /\ laPc = "off"

LayoutNext == LayoutStep \/ LayoutFinish

\* --------------------------------------------------- instruction decoder
\* The instruction set decoded: the first byte of an instruction gives its
\* encoded size (1, 2 or 3 bytes); byte 0 starts no instruction.  Operand
\* bytes are arbitrary.
Bytes == 0 .. 3
OpSize(b) == b

Marker == "?"

\* Whether the bytes from offset off (from 0) are no instruction: an
\* unrecognized first byte, or an encoding that runs past the byte range.
Undecodable(bs, off) ==
  \/ OpSize(bs[off + 1]) = 0
  \/ off + OpSize(bs[off + 1]) > Len(bs)

\* Decoding one instruction at offset off of the byte range: {text, size}; a
\* placeholder of exactly one byte for an undecodable sequence.
DecodeOneNoRangeCheck(bs, off) ==
  IF OpSize(bs[off + 1]) = 0
  THEN [size |-> 1, text |-> Marker]
  ELSE [size |-> OpSize(bs[off + 1]), text |-> "op"]
DecodeOneSkipsOperand(bs, off) ==
  IF Undecodable(bs, off)
  THEN [size |-> Min2(2, Len(bs) - off), text |-> Marker]
  ELSE [size |-> OpSize(bs[off + 1]), text |-> "op"]
DecodeOne(bs, off) ==
  IF Undecodable(bs, off)
  THEN [size |-> 1, text |-> Marker]
  ELSE [size |-> OpSize(bs[off + 1]), text |-> "op"]

functionEnd == functionStart + Len(code)

ByteSeqs(n) == UNION {[1 .. k -> Bytes] : k \in 0 .. n}

DecodeInit ==
  /\ code \in ByteSeqs(MaxLen)
  /\ functionStart \in 0 .. MaxStart
  /\ decPc = functionStart
  /\ insts = <<>>
  /\ decState = "decode"

DecodeOff ==
  /\ code = <<>>
  /\ functionStart = 0
  /\ decPc = 0
  /\ insts = <<>>
  /\ decState = "off"

\* One iteration of the decode loop: emit the instruction at pc, advance.
DecodeStep ==
  /\ decState = "decode"
  /\ decPc < functionEnd
  /\ LET d == DecodeOne(code, decPc - functionStart)
     IN /\ insts' = Append(insts, [pc |-> decPc, size |-> d.size, text |-> d.text])
        /\ decPc' = decPc + d.size
  /\ UNCHANGED <<code, functionStart, decState>>
  /\ UNCHANGED notDecode

\* The loop ends when pc reaches the end of the range.
DecodeFinish ==
  /\ decState = "decode"
  /\ decPc >= functionEnd
  /\ decState' = "done"
  /\ UNCHANGED <<code, functionStart, decPc, insts>>
  /\ UNCHANGED notDecode

DecodeNext == DecodeStep \/ DecodeFinish

\* --------------------------------------------------- source-block builder
Files == {"a.go", "b.go"}
NoFile == ""

\* The (file, line) an instruction can resolve to.
SrcRefs ==
  {[file |-> "a.go", line |-> l] : l \in 1 .. MaxLine}
    \cup {[file |-> "b.go", line |-> 1], [file |-> NoFile, line |-> 0]}

\* The lines of file f referenced by instructions with a known (file, line).
ReferencedLines(is, f) ==
  {is[i].line : i \in {k \in 1 .. Len(is) : is[k].file = f /\ is[k].line > 0}}

\* [line - context, line + context] clipped to the file's bounds 1..n.
Expand(l, ctx, n) == [lo |-> Max2(l - ctx, 1), hi |-> Min2(l + ctx, n)]

ExpandedRanges(is, f, ctx, n) ==
  {r \in {Expand(l, ctx, n) : l \in ReferencedLines(is, f)} : r.lo <= r.hi}

\* The number of lines between range a and a range b that starts no earlier.
Gap(a, b) == b.lo - a.hi - 1

\* Whether two expanded ranges belong to one block.
MergeableNever(cur, r, ctx) == FALSE
Mergeable(cur, r, ctx) == Gap(cur, r) <= 2 * ctx

\* cur grown by every range of S it merges with, transitively.
RECURSIVE Absorb(_, _, _)
Absorb(cur, S, ctx) ==
  LET near == {r \in S : Mergeable(cur, r, ctx)}
  IN IF near = {} THEN cur
     ELSE Absorb([lo |-> cur.lo,
                  hi |-> Max2(cur.hi, SetMax({r.hi : r \in near}))],
                 S \ near, ctx)

\* The merged ranges in line order.
RECURSIVE MergeRanges(_, _)
MergeRanges(S, ctx) ==
  IF S = {} THEN <<>>
  ELSE LET lo0   == SetMin({r.lo : r \in S})
           first == CHOOSE r \in S :
                      r.lo = lo0 /\ \A q \in S : q.lo = lo0 => r.hi <= q.hi
           cur   == Absorb(first, S \ {first}, ctx)
           rest  == {r \in S \ {first} : ~Mergeable(cur, r, ctx)}
       IN <<cur>> \o MergeRanges(rest, ctx)

Matches(is, f, l, i) == is[i].file = f /\ is[i].line = l

\* The end (exclusive, from 1) of the run of consecutive instructions of
\* line l of file f that starts at i.
RECURSIVE RunEnd(_, _, _, _)
RunEnd(is, f, l, i) ==
  IF i <= Len(is) /\ Matches(is, f, l, i) THEN RunEnd(is, f, l, i + 1) ELSE i

\* A run of instructions i .. j-1 (from 1) as a half-open LineRange of
\* instruction indices (from 0).
IndexRangeClosed(i, j) == [from |-> i - 1, to |-> j - 2]
IndexRange(i, j) == [from |-> i - 1, to |-> j - 1]

\* The instruction-index ranges whose line is l, scanning from i.
RECURSIVE Related(_, _, _, _)
Related(is, f, l, i) ==
  IF i > Len(is) THEN <<>>
  ELSE IF Matches(is, f, l, i)
       THEN <<IndexRange(i, RunEnd(is, f, l, i))>>
              \o Related(is, f, l, RunEnd(is, f, l, i))
       ELSE Related(is, f, l, i + 1)

\* The text of line l of file f.
LineText(f, l) == <<f, l>>

\* The block of a merged range: half-open {from, to}, its lines and, per
\* line, the related instruction-index ranges.
BlockOf(is, f, r) ==
  [from    |-> r.lo,
   to      |-> r.hi + 1,
   lines   |-> [i \in 1 .. r.hi - r.lo + 1 |-> LineText(f, r.lo + i - 1)],
   related |-> [i \in 1 .. r.hi - r.lo + 1 |-> Related(is, f, r.lo + i - 1, 1)]]

BlocksOf(is, f, ctx, n) ==
  LET rs == MergeRanges(ExpandedRanges(is, f, ctx, n), ctx)
  IN [k \in 1 .. Len(rs) |-> BlockOf(is, f, rs[k])]

ReferencedFiles(is) == {is[i].file : i \in 1 .. Len(is)} \ {NoFile}

BlocksInit ==
  /\ srcInsts \in UNION {[1 .. k -> SrcRefs] : k \in 0 .. MaxInsts}
  /\ contextLines \in -1 .. MaxCtx
  /\ fileLen \in {n \in [Files -> 0 .. MaxLine] :
                    n["a.go"] \in {0, MaxLine - 1, MaxLine} /\ n["b.go"] <= 1}
  /\ sources = [f \in Files |-> <<>>]
  /\ sbTodo = ReferencedFiles(srcInsts)
  /\ sbState = "build"

BlocksOff ==
  /\ srcInsts = <<>>
  /\ contextLines = 0
  /\ fileLen = [f \in Files |-> 0]
  /\ sources = [f \in Files |-> <<>>]
  /\ sbTodo = {}
  /\ sbState = "off"

\* The blocks of one referenced file.
BuildSource(f) ==
  /\ sbState = "build"
  /\ f \in sbTodo
  /\ sources' = [sources EXCEPT
                   ![f] = BlocksOf(srcInsts, f, contextLines, fileLen[f])]
  /\ sbTodo' = sbTodo \ {f}
  /\ UNCHANGED <<srcInsts, contextLines, fileLen, sbState>>
  /\ UNCHANGED notBlocks

BuildFinish ==
  /\ sbState = "build"
  /\ sbTodo = {}
  /\ sbState' = "done"
  /\ UNCHANGED <<srcInsts, contextLines, fileLen, sources, sbTodo>>
  /\ UNCHANGED notBlocks

BlocksNext == (\E f \in Files : BuildSource(f)) \/ BuildFinish

\* ------------------------------------------------- HTTP server (server.go)
Paths == {"/p", "/q"}
NoPath == ""
NoExe == 0
Handlers == 1 .. MaxHandlers

StatusOK == 200
StatusCreated == 201
StatusBadRequest == 400
StatusNotFound == 404
StatusMethodNotAllowed == 405
StatusMovedPermanently == 301
StatusInternalServerError == 500

\* The functions of every Executable, in Funcs() order.
ExeFuncs == <<"main.main", "main.run">>
\* The function names requests ask for.
FuncParams == {"main.run", "main.gone"}
\* The filter parameters requests carry: none, a valid pattern, a bad one.
FilterParams == {"", "run", "("}
RegexCompilesAlways(f) == TRUE
RegexCompiles(f) == f # "("
RegexMatches(f, name) == IF f = "run" THEN name = "main.run" ELSE TRUE
\* The context parameters requests carry: none, a number, not a number.
ContextParams == {"", "7", "x"}
\* Decimal numerals: Numerals[n + 1] is what %d prints for n.
Numerals == <<"0", "1", "2", "3", "4", "5", "6", "7">>
AtoiOK(c) == \E i \in 1 .. Len(Numerals) : Numerals[i] = c
Atoi(c) ==
  IF AtoiOK(c) THEN (CHOOSE i \in 1 .. Len(Numerals) : Numerals[i] = c) - 1
  ELSE 0

NoBody == <<>>
Response(c, b) == [code |-> c, body |-> b]

\* Map operations on activeFiles.
ExistsNever(m, p) == FALSE
Exists(m, p) == m[p] # NoExe
MapStore(m, p, e) == [m EXCEPT ![p] = e]
MapDeleteKeeps(m, p) == m
MapDelete(m, p) == [m EXCEPT ![p] = NoExe]
MapKeysAll(m) == Paths
MapKeys(m) == {p \in Paths : m[p] # NoExe}

\* sync.RWMutex: RLock waits while a writer holds the lock or waits for it,
\* Lock waits for the writer and every reader to leave.
CanRLockExclusive == rwWriter = 0 /\ rwPending = {} /\ rwReaders = {}
CanRLock == rwWriter = 0 /\ rwPending = {}
CanLock(h) == h \in rwPending /\ rwWriter = 0 /\ rwReaders = {}

\* NewServer(context): an empty registry.
ServerInit ==
  /\ activeFiles = [p \in Paths |-> NoExe]
  /\ rwReaders = {}
  /\ rwWriter = 0
  /\ rwPending = {}
  /\ options \in 0 .. MaxCtx
  /\ nextExe = 1
  /\ closed = {}
  /\ hKind = [h \in Handlers |-> "none"]
  /\ hPath = [h \in Handlers |-> NoPath]
  /\ hPc = [h \in Handlers |-> "idle"]
  /\ hFile = [h \in Handlers |-> NoExe]
  /\ hCtx = [h \in Handlers |-> 0]
  /\ resp = [h \in Handlers |-> Response(0, NoBody)]
  /\ started = 0
  /\ sinceClose = [p \in Paths |-> FALSE]
  /\ srvOn = TRUE
  /\ hFilter = [h \in Handlers |-> ""]
  /\ errSeen = {}
  /\ hLate = [h \in Handlers |-> FALSE]
  /\ closeErr = {}
  /\ live = {}
  /\ holders = [p \in Paths |-> 0]
  /\ orphans = {}

ServerOff ==
  /\ activeFiles = [p \in Paths |-> NoExe]
  /\ rwReaders = {}
  /\ rwWriter = 0
  /\ rwPending = {}
  /\ options = 0
  /\ nextExe = 1
  /\ closed = {}
  /\ hKind = [h \in Handlers |-> "none"]
  /\ hPath = [h \in Handlers |-> NoPath]
  /\ hPc = [h \in Handlers |-> "idle"]
  /\ hFile = [h \in Handlers |-> NoExe]
  /\ hCtx = [h \in Handlers |-> 0]
  /\ resp = [h \in Handlers |-> Response(0, NoBody)]
  /\ started = 0
  /\ sinceClose = [p \in Paths |-> FALSE]
  /\ srvOn = FALSE
  /\ hFilter = [h \in Handlers |-> ""]
  /\ errSeen = {}
  /\ hLate = [h \in Handlers |-> FALSE]
  /\ closeErr = {}
  /\ live = {}
  /\ holders = [p \in Paths |-> 0]
  /\ orphans = {}

\* A goroutine takes a request; goroutines are interchangeable, the idle one
\* with the lowest number takes it.
CanStart(h) ==
  /\ srvOn
  /\ hPc[h] = "idle"
  /\ started < MaxReqs
  /\ \A g \in Handlers : g < h => hPc[g] # "idle"

Begin(h, kind, p, pc) ==
  /\ hKind' = [hKind EXCEPT ![h] = kind]
  /\ hPath' = [hPath EXCEPT ![h] = p]
  /\ hPc' = [hPc EXCEPT ![h] = pc]
  /\ hFile' = [hFile EXCEPT ![h] = NoExe]
  /\ hCtx' = [hCtx EXCEPT ![h] = options]
  /\ resp' = [resp EXCEPT ![h] = Response(0, NoBody)]
  /\ started' = started + 1
  /\ hLate' = [hLate EXCEPT ![h] = <<kind, p>> \in errSeen]

\* The handler returns after writing its response.
Reply(h, c, b) ==
  /\ resp' = [resp EXCEPT ![h] = Response(c, b)]
  /\ hPc' = [hPc EXCEPT ![h] = "idle"]

Goto(h, pc) == hPc' = [hPc EXCEPT ![h] = pc]

\* A request without its path (or, for a load, with a body that is no JSON):
\* 400 before anything is touched.
BadRequest(h) ==
  /\ CanStart(h)
  /\ \E kind \in {"load", "funcs", "code"} :
       /\ hKind' = [hKind EXCEPT ![h] = kind]
       /\ hPath' = [hPath EXCEPT ![h] = NoPath]
  /\ hFile' = [hFile EXCEPT ![h] = NoExe]
  /\ resp' = [resp EXCEPT ![h] = Response(StatusBadRequest, NoBody)]
  /\ started' = started + 1
  /\ UNCHANGED <<activeFiles, rwReaders, rwWriter, rwPending, options, nextExe,
                 closed, hPc, hCtx, sinceClose, srvOn,
                 hFilter, errSeen, hLate, closeErr, live, holders, orphans>>
  /\ UNCHANGED notServer

\* POST /api/files, GET /api/functions, GET /api/functions/{name} and
\* GET /api/files arrive: the handler is about to RLock.
StartRead(h) ==
  /\ CanStart(h)
  /\ \/ \E p \in Paths : Begin(h, "load", p, "check")
     \/ \E p \in Paths : Begin(h, "funcs", p, "lookup")
     \/ \E p \in Paths : Begin(h, "code", p, "lookup")
     \/ Begin(h, "list", NoPath, "listing")
  /\ UNCHANGED <<activeFiles, rwReaders, rwWriter, rwPending, options, nextExe,
                 closed, sinceClose, srvOn,
                 hFilter, errSeen, closeErr, live, holders, orphans>>
  /\ UNCHANGED notServer

\* DELETE /api/files/{path} arrives: the handler calls Lock().
StartClose(h) ==
  /\ CanStart(h)
  /\ \E p \in Paths : Begin(h, "close", p, "delete")
  /\ rwPending' = rwPending \cup {h}
  /\ UNCHANGED <<activeFiles, rwReaders, rwWriter, options, nextExe, closed,
                 sinceClose, srvOn,
                 hFilter, errSeen, closeErr, live, holders, orphans>>
  /\ UNCHANGED notServer

\* handleFiles POST: RLock; _, exists := activeFiles[path].
LoadCheck(h) ==
  /\ hPc[h] = "check"
  /\ CanRLock
  /\ rwReaders' = rwReaders \cup {h}
  /\ hFile' = [hFile EXCEPT ![h] =
                 IF Exists(activeFiles, hPath[h]) THEN activeFiles[hPath[h]]
                 ELSE NoExe]
  /\ Goto(h, "checked")
  /\ UNCHANGED <<activeFiles, rwWriter, rwPending, options, nextExe, closed,
                 hKind, hPath, hCtx, resp, started, sinceClose, srvOn,
                 hFilter, errSeen, hLate, closeErr, live, holders, orphans>>
  /\ UNCHANGED notServer

\* RUnlock; if exists: 200 and return.
LoadCheckUnlock(h) ==
  /\ hPc[h] = "checked"
  /\ rwReaders' = rwReaders \ {h}
  /\ IF hFile[h] # NoExe
     THEN Reply(h, StatusOK, NoBody)
     ELSE Goto(h, "load") /\ UNCHANGED resp
  /\ UNCHANGED <<activeFiles, rwWriter, rwPending, options, nextExe, closed,
                 hKind, hPath, hFile, hCtx, started, sinceClose, srvOn,
                 hFilter, errSeen, hLate, closeErr, live>>
  /\ holders' = IF hFile[h] # NoExe
                  THEN [holders EXCEPT ![hPath[h]] = Min2(2, @ + 1)]
                  ELSE holders
  /\ UNCHANGED orphans
  /\ UNCHANGED notServer

\* The loader's failure still leaves an Executable to store.
LoadFileKeepsPartial(h) ==
  /\ hPc[h] = "load"
  /\ hFile' = [hFile EXCEPT ![h] = nextExe]
  /\ nextExe' = nextExe + 1
  /\ rwPending' = rwPending \cup {h}
  /\ Goto(h, "store")
  /\ \/ UNCHANGED <<resp, errSeen>>
     \/ /\ resp' = [resp EXCEPT ![h] = Response(StatusInternalServerError, NoBody)]
        /\ errSeen' = errSeen \cup {<<"load", hPath[h]>>}
  /\ UNCHANGED <<activeFiles, rwReaders, rwWriter, options, closed, hKind,
                 hPath, hCtx, started, sinceClose, srvOn,
                 hFilter, hLate, closeErr, live, holders, orphans>>
  /\ UNCHANGED notServer

\* goobj.Load / wasmobj.Load: a new Executable, or an error and 500.  With
\* the Executable the handler goes on to Lock().
LoadFile(h) ==
  /\ hPc[h] = "load"
  /\ \/ /\ hFile' = [hFile EXCEPT ![h] = nextExe]
        /\ nextExe' = nextExe + 1
        /\ rwPending' = rwPending \cup {h}
        /\ Goto(h, "store")
        /\ UNCHANGED <<resp, errSeen>>
     \/ /\ Reply(h, StatusInternalServerError, NoBody)
        /\ errSeen' = errSeen \cup {<<"load", hPath[h]>>}
        /\ UNCHANGED <<hFile, nextExe, rwPending>>
  /\ UNCHANGED <<activeFiles, rwReaders, rwWriter, options, closed, hKind,
                 hPath, hCtx, started, sinceClose, srvOn,
                 hFilter, hLate, closeErr, live, holders, orphans>>
  /\ UNCHANGED notServer

\* Lock acquired; activeFiles[path] = file.
LoadStore(h) ==
  /\ hPc[h] = "store"
  /\ CanLock(h)
  /\ rwPending' = rwPending \ {h}
  /\ rwWriter' = h
  /\ activeFiles' = MapStore(activeFiles, hPath[h], hFile[h])
  /\ sinceClose' = [sinceClose EXCEPT ![hPath[h]] = FALSE]
  /\ live' = live \cup {hPath[h]}
  /\ Goto(h, "stored")
  /\ UNCHANGED <<rwReaders, options, nextExe, closed, hKind, hPath, hFile,
                 hCtx, resp, started, srvOn,
                 hFilter, errSeen, hLate, closeErr>>
  /\ orphans' = orphans \ {hPath[h]}
  /\ UNCHANGED holders
  /\ UNCHANGED notServer

\* Unlock; 201.
LoadStoreUnlock(h) ==
  /\ hPc[h] = "stored"
  /\ rwWriter' = 0
  /\ Reply(h, StatusCreated, NoBody)
  /\ UNCHANGED <<activeFiles, rwReaders, rwPending, options, nextExe, closed,
                 hKind, hPath, hFile, hCtx, started, sinceClose, srvOn,
                 hFilter, errSeen, hLate, closeErr, live>>
  /\ holders' = [holders EXCEPT ![hPath[h]] = Min2(2, @ + 1)]
  /\ UNCHANGED orphans
  /\ UNCHANGED notServer

\* handleFiles GET: RLock; the paths of the registry are collected.
ListRead(h) ==
  /\ hPc[h] = "listing"
  /\ CanRLock
  /\ rwReaders' = rwReaders \cup {h}
  /\ resp' = [resp EXCEPT ![h] = Response(0, MapKeys(activeFiles))]
  /\ Goto(h, "listed")
  /\ UNCHANGED <<activeFiles, rwWriter, rwPending, options, nextExe, closed,
                 hKind, hPath, hFile, hCtx, started, sinceClose, srvOn,
                 hFilter, errSeen, hLate, closeErr, live, holders, orphans>>
  /\ UNCHANGED notServer

\* RUnlock; the list is encoded (200).
ListUnlock(h) ==
  /\ hPc[h] = "listed"
  /\ rwReaders' = rwReaders \ {h}
  /\ Reply(h, StatusOK, resp[h].body)
  /\ UNCHANGED <<activeFiles, rwWriter, rwPending, options, nextExe, closed,
                 hKind, hPath, hFile, hCtx, started, sinceClose, srvOn,
                 hFilter, errSeen, hLate, closeErr, live, holders, orphans>>
  /\ UNCHANGED notServer

\* The entry kept while another load still holds it.
CloseDeleteRefCounted(h) ==
  /\ hPc[h] = "delete"
  /\ CanLock(h)
  /\ rwPending' = rwPending \ {h}
  /\ rwWriter' = h
  /\ hFile' = [hFile EXCEPT ![h] = activeFiles[hPath[h]]]
  /\ IF Exists(activeFiles, hPath[h]) /\ holders[hPath[h]] >= 2
     THEN /\ holders' = [holders EXCEPT ![hPath[h]] = 1]
          /\ UNCHANGED <<activeFiles, sinceClose, live, orphans>>
     ELSE IF Exists(activeFiles, hPath[h])
     THEN /\ activeFiles' = MapDelete(activeFiles, hPath[h])
          /\ sinceClose' = [sinceClose EXCEPT ![hPath[h]] = TRUE]
          /\ live' = live \ {hPath[h]}
          /\ holders' = [holders EXCEPT ![hPath[h]] = 0]
          /\ orphans' = IF holders[hPath[h]] >= 2 THEN orphans \cup {hPath[h]}
                                                 ELSE orphans
     ELSE UNCHANGED <<activeFiles, sinceClose, live, holders, orphans>>
  /\ Goto(h, "deleted")
  /\ UNCHANGED <<rwReaders, options, nextExe, closed, hKind, hPath, hCtx,
                 resp, started, srvOn,
                 hFilter, errSeen, hLate, closeErr>>
  /\ UNCHANGED notServer

\* handleFileOperations: Lock acquired; file, exists := activeFiles[path];
\* if exists, delete(activeFiles, path).
CloseDelete(h) ==
  /\ hPc[h] = "delete"
  /\ CanLock(h)
  /\ rwPending' = rwPending \ {h}
  /\ rwWriter' = h
  /\ hFile' = [hFile EXCEPT ![h] = activeFiles[hPath[h]]]
  /\ IF Exists(activeFiles, hPath[h])
     THEN /\ activeFiles' = MapDelete(activeFiles, hPath[h])
          /\ sinceClose' = [sinceClose EXCEPT ![hPath[h]] = TRUE]
          /\ live' = live \ {hPath[h]}
          /\ holders' = [holders EXCEPT ![hPath[h]] = 0]
          /\ orphans' = IF holders[hPath[h]] >= 2 THEN orphans \cup {hPath[h]}
                                                 ELSE orphans
     ELSE UNCHANGED <<activeFiles, sinceClose, live, holders, orphans>>
  /\ Goto(h, "deleted")
  /\ UNCHANGED <<rwReaders, options, nextExe, closed, hKind, hPath, hCtx,
                 resp, started, srvOn,
                 hFilter, errSeen, hLate, closeErr>>
  /\ UNCHANGED notServer

\* Unlock without the test of exists.
CloseUnlockNoCheck(h) ==
  /\ hPc[h] = "deleted"
  /\ rwWriter' = 0
  /\ Goto(h, "close") /\ UNCHANGED resp
  /\ UNCHANGED <<activeFiles, rwReaders, rwPending, options, nextExe, closed,
                 hKind, hPath, hFile, hCtx, started, sinceClose, srvOn,
                 hFilter, errSeen, hLate, closeErr, live, holders, orphans>>
  /\ UNCHANGED notServer

\* Unlock; if !exists: 404 and return.
CloseUnlock(h) ==
  /\ hPc[h] = "deleted"
  /\ rwWriter' = 0
  /\ IF hFile[h] = NoExe
     THEN Reply(h, StatusNotFound, NoBody)
     ELSE Goto(h, "close") /\ UNCHANGED resp
  /\ UNCHANGED <<activeFiles, rwReaders, rwPending, options, nextExe, closed,
                 hKind, hPath, hFile, hCtx, started, sinceClose, srvOn,
                 hFilter, errSeen, hLate, closeErr, live, holders, orphans>>
  /\ UNCHANGED notServer

\* file.Close(): its error, if any, is logged; 200 either way.
CloseFile(h) ==
  /\ hPc[h] = "close"
  /\ closed' = closed \cup {hFile[h]}
  /\ \E err \in BOOLEAN :
       /\ closeErr' = IF err THEN closeErr \cup {hFile[h]} ELSE closeErr
       /\ Reply(h, StatusOK, NoBody)
  /\ UNCHANGED <<activeFiles, rwReaders, rwWriter, rwPending, options, nextExe,
                 hKind, hPath, hFile, hCtx, started, sinceClose, srvOn,
                 hFilter, errSeen, hLate, live, holders, orphans>>
  /\ UNCHANGED notServer

\* handleFunctions and handleFunctionOperations: RLock;
\* file, exists := activeFiles[path].
Lookup(h) ==
  /\ hPc[h] = "lookup"
  /\ CanRLock
  /\ rwReaders' = rwReaders \cup {h}
  /\ hFile' = [hFile EXCEPT ![h] = activeFiles[hPath[h]]]
  /\ Goto(h, "looked")
  /\ UNCHANGED <<activeFiles, rwWriter, rwPending, options, nextExe, closed,
                 hKind, hPath, hCtx, resp, started, sinceClose, srvOn,
                 hFilter, errSeen, hLate, closeErr, live, holders, orphans>>
  /\ UNCHANGED notServer

\* The read lock released only when the handler returns (defer RUnlock).
LookupUnlockHoldsLock(h) ==
  /\ hPc[h] = "looked"
  /\ IF hFile[h] = NoExe
     THEN Reply(h, StatusNotFound, NoBody) /\ rwReaders' = rwReaders \ {h}
     ELSE /\ Goto(h, IF hKind[h] = "funcs" THEN "funcs" ELSE "find")
          /\ UNCHANGED <<resp, rwReaders>>
  /\ UNCHANGED <<activeFiles, rwWriter, rwPending, options, nextExe, closed,
                 hKind, hPath, hFile, hCtx, started, sinceClose, srvOn,
                 hFilter, errSeen, hLate, closeErr, live, holders, orphans>>
  /\ UNCHANGED notServer

\* RUnlock; if !exists: 404 and return.
LookupUnlock(h) ==
  /\ hPc[h] = "looked"
  /\ rwReaders' = rwReaders \ {h}
  /\ IF hFile[h] = NoExe
     THEN Reply(h, StatusNotFound, NoBody)
     ELSE Goto(h, IF hKind[h] = "funcs" THEN "funcs" ELSE "find")
            /\ UNCHANGED resp
  /\ UNCHANGED <<activeFiles, rwWriter, rwPending, options, nextExe, closed,
                 hKind, hPath, hFile, hCtx, started, sinceClose, srvOn,
                 hFilter, errSeen, hLate, closeErr, live, holders, orphans>>
  /\ UNCHANGED notServer

\* The names of funcs that the filter lets through, in order.
FilterFuncs(funcs, filter) ==
  SelectSeq(funcs, LAMBDA name : filter = "" \/ RegexMatches(filter, name))

\* handleFunctions: file.Funcs(); a filter that does not compile: 400; else
\* the (filtered) names.
FuncsList(h) ==
  /\ hPc[h] = "funcs"
  /\ \E filter \in FilterParams :
       /\ hFilter' = [hFilter EXCEPT ![h] = filter]
       /\ IF filter # "" /\ ~RegexCompiles(filter)
          THEN /\ Reply(h, StatusBadRequest, NoBody)
               /\ errSeen' = errSeen \cup {<<"funcs", hPath[h]>>}
          ELSE /\ Reply(h, StatusOK, FilterFuncs(ExeFuncs, filter))
               /\ UNCHANGED errSeen
  /\ UNCHANGED <<activeFiles, rwReaders, rwWriter, rwPending, options, nextExe,
                 closed, hKind, hPath, hFile, hCtx, started, sinceClose, srvOn,
                 hLate, closeErr, live, holders, orphans>>
  /\ UNCHANGED notServer

\* The context parameter written into the server's options.
CodeFindSetsDefault(h) ==
  /\ hPc[h] = "find"
  /\ \E name \in FuncParams : \E c \in ContextParams :
       IF \A i \in 1 .. Len(ExeFuncs) : ExeFuncs[i] # name
       THEN Reply(h, StatusNotFound, NoBody) /\ UNCHANGED <<hCtx, options>>
       ELSE IF c # "" /\ ~AtoiOK(c)
       THEN Reply(h, StatusBadRequest, NoBody) /\ UNCHANGED <<hCtx, options>>
       ELSE /\ options' = IF c = "" THEN options ELSE Atoi(c)
            /\ hCtx' = [hCtx EXCEPT ![h] = options']
            /\ resp' = [resp EXCEPT ![h] = Response(0, name)]
            /\ Goto(h, "loadcode")
  /\ UNCHANGED <<activeFiles, rwReaders, rwWriter, rwPending, nextExe,
                 closed, hKind, hPath, hFile, started, sinceClose, srvOn,
                 hFilter, errSeen, hLate, closeErr, live, holders, orphans>>
  /\ UNCHANGED notServer

\* handleFunctionOperations: file.Funcs() is searched for the name (404 when
\* it is not there), then the context parameter is parsed (400 when it is no
\* number) into the handler's copy of the options.
CodeFind(h) ==
  /\ hPc[h] = "find"
  /\ \E name \in FuncParams : \E c \in ContextParams :
       IF \A i \in 1 .. Len(ExeFuncs) : ExeFuncs[i] # name
       THEN Reply(h, StatusNotFound, NoBody) /\ UNCHANGED hCtx
       ELSE IF c # "" /\ ~AtoiOK(c)
       THEN Reply(h, StatusBadRequest, NoBody) /\ UNCHANGED hCtx
       ELSE /\ hCtx' = [hCtx EXCEPT ![h] = IF c = "" THEN options ELSE Atoi(c)]
            /\ resp' = [resp EXCEPT ![h] = Response(0, name)]
            /\ Goto(h, "loadcode")
  /\ UNCHANGED <<activeFiles, rwReaders, rwWriter, rwPending, options, nextExe,
                 closed, hKind, hPath, hFile, started, sinceClose, srvOn,
                 hFilter, errSeen, hLate, closeErr, live, holders, orphans>>
  /\ UNCHANGED notServer

\* targetFunc.Load(options): nil: 500; else the code is encoded (200).
CodeLoad(h) ==
  /\ hPc[h] = "loadcode"
  /\ \/ Reply(h, StatusInternalServerError, NoBody)
     \/ Reply(h, StatusOK,
              [name |-> resp[h].body, exe |-> hFile[h], context |-> hCtx[h]])
  /\ UNCHANGED <<activeFiles, rwReaders, rwWriter, rwPending, options, nextExe,
                 closed, hKind, hPath, hFile, hCtx, started, sinceClose, srvOn,
                 hFilter, errSeen, hLate, closeErr, live, holders, orphans>>
  /\ UNCHANGED notServer

ServerNext ==
  \E h \in Handlers :
    \/ BadRequest(h) \/ StartRead(h) \/ StartClose(h)
    \/ LoadCheck(h) \/ LoadCheckUnlock(h) \/ LoadFile(h)
    \/ LoadStore(h) \/ LoadStoreUnlock(h)
    \/ ListRead(h) \/ ListUnlock(h)
    \/ CloseDelete(h) \/ CloseUnlock(h) \/ CloseFile(h)
    \/ Lookup(h) \/ LookupUnlock(h)
    \/ FuncsList(h) \/ CodeFind(h) \/ CodeLoad(h)

\* ------------------------------------------------ FileUI.Run (fileui.go)
NoResult == [ok |-> FALSE, id |-> 0]

\* A nil disasm.Func or *disasm.Code; otherwise the Executable it belongs to
\* and the function's name.
NoFunc == [exe |-> 0, name |-> ""]
Func(exe, name) == [exe |-> exe, name |-> name]

\* fn.Load(opts): the Code of the function, or nil when decoding fails.
Load(fn, ok) == IF ok THEN fn ELSE NoFunc

\* The lists file.Funcs() of the Executables loaded.
FileFuncs == {ExeFuncs, <<"main.main">>}

\* Nothing drawn yet; otherwise the error text or the Code a frame drew.
NoShown == [error |-> 0, code |-> NoFunc]

\* A buffered channel of capacity 1 is a sequence of at most one value.
ChanCap == 1
CanSend(ch) == Len(ch) < ChanCap
CanRecv(ch) == Len(ch) > 0

\* No receive before the send: the pending value stays.
DrainKeeps(ch) == ch

\* select { case <-ch: default: }: take the pending value if there is one.
Drain(ch) == IF CanRecv(ch) THEN Tail(ch) ELSE ch

UIInit ==
  /\ serverMode \in BOOLEAN
  /\ watch \in BOOLEAN
  /\ fileLoaded = <<>>
  /\ fileLoadError = <<>>
  /\ wPc = "load"
  /\ wRes = NoResult
  /\ lastModTime = 0
  /\ statFailed = FALSE
  /\ produced = 0
  /\ received = <<>>
  /\ uiFile = 0
  /\ uiLoadError = 0
  /\ uiClosed = {}
  /\ exited = FALSE
  /\ wLoaded = FALSE
  /\ wMt = 0
  /\ wLatest = [file |-> 0, err |-> 0]
  /\ uiItems = <<>>
  /\ uiSelected = ""
  /\ uiSelItem = NoFunc
  /\ uiCode = NoFunc
  /\ uiShown = NoShown
  /\ uiFault = FALSE

UIOff ==
  /\ serverMode = FALSE
  /\ watch = FALSE
  /\ fileLoaded = <<>>
  /\ fileLoadError = <<>>
  /\ wPc = "off"
  /\ wRes = NoResult
  /\ lastModTime = 0
  /\ statFailed = FALSE
  /\ produced = 0
  /\ received = <<>>
  /\ uiFile = 0
  /\ uiLoadError = 0
  /\ uiClosed = {}
  /\ exited = FALSE
  /\ wLoaded = FALSE
  /\ wMt = 0
  /\ wLatest = [file |-> 0, err |-> 0]
  /\ uiItems = <<>>
  /\ uiSelected = ""
  /\ uiSelItem = NoFunc
  /\ uiCode = NoFunc
  /\ uiShown = NoShown
  /\ uiFault = FALSE

\* The watcher calls loadFinished(exe, err) with a new result.
CallLoadFinished(ok) ==
  /\ produced < MaxResults
  /\ produced' = produced + 1
  /\ wRes' = [ok |-> ok, id |-> produced + 1]
  /\ wPc' = "drain"

\* Client mode: one LoadNetworkFile, whose result goes to loadFinished.
WatcherServerLoad ==
  /\ wPc = "load"
  /\ serverMode
  /\ \E ok \in BOOLEAN : CallLoadFinished(ok)
  /\ wLoaded' = TRUE
  /\ UNCHANGED <<serverMode, watch, statFailed, fileLoaded, fileLoadError, lastModTime,
                 received, uiFile, uiLoadError, uiClosed, exited>>
  /\ UNCHANGED <<wMt, wLatest, viewVars>>
  /\ UNCHANGED notUI

\* Local mode: the goroutine enters its polling loop.
WatcherLocal ==
  /\ wPc = "load"
  /\ ~serverMode
  /\ wPc' = "stat"
  /\ UNCHANGED <<serverMode, watch, statFailed, fileLoaded, fileLoadError, wRes,
                 lastModTime, produced, received, uiFile, uiLoadError,
                 uiClosed, exited>>
  /\ UNCHANGED <<pollVars, wLatest, viewVars>>
  /\ UNCHANGED notUI

\* The modification time recorded only when the load succeeded: a failed
\* load is attempted again at the next poll.
WatcherStatRetriesFailedLoad ==
  /\ wPc = "stat"
  /\ \E statErr \in BOOLEAN, mt \in 1..MaxModTime, ok \in BOOLEAN :
       /\ statFailed' = statErr
       /\ wMt' = IF statErr THEN 0 ELSE mt
       /\ IF statErr
          THEN /\ CallLoadFinished(FALSE)
               /\ wLoaded' = FALSE
               /\ UNCHANGED lastModTime
          ELSE IF mt = lastModTime
            THEN /\ wPc' = "check"
                 /\ wLoaded' = FALSE
                 /\ UNCHANGED <<wRes, produced, lastModTime>>
            ELSE /\ lastModTime' = IF ok THEN mt ELSE lastModTime
                 /\ wLoaded' = TRUE
                 /\ CallLoadFinished(ok)
  /\ UNCHANGED <<serverMode, watch, fileLoaded, fileLoadError, received,
                 uiFile, uiLoadError, uiClosed, exited>>
  /\ UNCHANGED <<wLatest, viewVars>>
  /\ UNCHANGED notUI

\* One poll: os.Stat fails, or reports the modification time mt; an unchanged
\* time loads nothing, a changed one is remembered and the file is loaded.
WatcherStat ==
  /\ wPc = "stat"
  /\ \E statErr \in BOOLEAN, mt \in 1..MaxModTime, ok \in BOOLEAN :
       /\ statFailed' = statErr
       /\ wMt' = IF statErr THEN 0 ELSE mt
       /\ IF statErr
          THEN /\ CallLoadFinished(FALSE)
               /\ wLoaded' = FALSE
               /\ UNCHANGED lastModTime
          ELSE IF mt = lastModTime
            THEN /\ wPc' = "check"
                 /\ wLoaded' = FALSE
                 /\ UNCHANGED <<wRes, produced, lastModTime>>
            ELSE /\ lastModTime' = mt
                 /\ wLoaded' = TRUE
                 /\ CallLoadFinished(ok)
  /\ UNCHANGED <<serverMode, watch, fileLoaded, fileLoadError, received,
                 uiFile, uiLoadError, uiClosed, exited>>
  /\ UNCHANGED <<wLatest, viewVars>>
  /\ UNCHANGED notUI

\* loadFinished, first half: the non-blocking receive on the result's channel.
LoadFinishedDrain ==
  /\ wPc = "drain"
  /\ IF wRes.ok
       THEN /\ fileLoaded' = Drain(fileLoaded)
            /\ UNCHANGED fileLoadError
       ELSE /\ fileLoadError' = Drain(fileLoadError)
            /\ UNCHANGED fileLoaded
  /\ wPc' = "send"
  /\ UNCHANGED <<serverMode, watch, statFailed, wRes, lastModTime, produced, received,
                 uiFile, uiLoadError, uiClosed, exited>>
  /\ UNCHANGED <<pollVars, wLatest, viewVars>>
  /\ UNCHANGED notUI

\* loadFinished, second half: the send; then the goroutine returns (client
\* mode) or goes on to the test of ui.Config.Watch.
LoadFinishedSend ==
  /\ wPc = "send"
  /\ IF wRes.ok
       THEN /\ CanSend(fileLoaded)
            /\ fileLoaded' = Append(fileLoaded, wRes.id)
            /\ UNCHANGED fileLoadError
       ELSE /\ CanSend(fileLoadError)
            /\ fileLoadError' = Append(fileLoadError, wRes.id)
            /\ UNCHANGED fileLoaded
  /\ wPc' = IF serverMode THEN "done" ELSE "check"
  /\ wLatest' = IF wRes.ok THEN [wLatest EXCEPT !.file = wRes.id]
                           ELSE [wLatest EXCEPT !.err = wRes.id]
  /\ UNCHANGED <<serverMode, watch, statFailed, wRes, lastModTime, produced, received,
                 uiFile, uiLoadError, uiClosed, exited>>
  /\ UNCHANGED <<pollVars, viewVars>>
  /\ UNCHANGED notUI

\* The loop also left when the poll's result was an error.
WatcherCheckStopsOnError ==
  /\ wPc = "check"
  /\ wPc' = IF watch /\ (wRes.ok \/ wRes.id = 0) THEN "wait" ELSE "done"
  /\ UNCHANGED <<serverMode, watch, statFailed, fileLoaded, fileLoadError,
                 wRes, lastModTime, produced, received, uiFile, uiLoadError,
                 uiClosed, exited>>
  /\ UNCHANGED <<pollVars, wLatest, viewVars>>
  /\ UNCHANGED notUI

\* if !ui.Config.Watch { break }
WatcherCheck ==
  /\ wPc = "check"
  /\ wPc' = IF watch THEN "wait" ELSE "done"
  /\ UNCHANGED <<serverMode, watch, statFailed, fileLoaded, fileLoadError, wRes,
                 lastModTime, produced, received, uiFile, uiLoadError,
                 uiClosed, exited>>
  /\ UNCHANGED <<pollVars, wLatest, viewVars>>
  /\ UNCHANGED notUI

\* select on the ticker: the next poll.
WatcherTick ==
  /\ wPc = "wait"
  /\ wPc' = "stat"
  /\ UNCHANGED <<serverMode, watch, statFailed, fileLoaded, fileLoadError, wRes,
                 lastModTime, produced, received, uiFile, uiLoadError,
                 uiClosed, exited>>
  /\ UNCHANGED <<pollVars, wLatest, viewVars>>
  /\ UNCHANGED notUI

\* select on exited: Run returned, the goroutine returns.
WatcherExited ==
  /\ wPc = "wait"
  /\ exited
  /\ wPc' = "done"
  /\ UNCHANGED <<serverMode, watch, statFailed, fileLoaded, fileLoadError, wRes,
                 lastModTime, produced, received, uiFile, uiLoadError,
                 uiClosed, exited>>
  /\ UNCHANGED <<pollVars, wLatest, viewVars>>
  /\ UNCHANGED notUI

\* Consumer loop, case err := <-fileLoadError.
ConsumeError ==
  /\ ~exited
  /\ mainPc = "select"
  /\ CanRecv(fileLoadError)
  /\ uiLoadError' = Head(fileLoadError)
  /\ received' = Append(received, Head(fileLoadError))
  /\ fileLoadError' = Tail(fileLoadError)
  /\ UNCHANGED <<serverMode, watch, statFailed, fileLoaded, wPc, wRes, lastModTime,
                 produced, uiFile, uiClosed, exited>>
  /\ UNCHANGED <<pollVars, wLatest, viewVars>>
  /\ UNCHANGED notUI

\* ui.Funcs.SetItems(items): the list shows items; the selection, kept by
\* name and by reference, is the one made before.
SetItems(items) ==
  /\ uiItems' = items
  /\ UNCHANGED <<uiSelected, uiSelItem>>

\* ui.Funcs.SelectIndex(0): [Selected, SelectedItem] afterwards.
SelectIndex0 ==
  IF Len(uiItems) > 0
    THEN [name |-> uiItems[1], item |-> Func(uiFile, uiItems[1])]
    ELSE [name |-> uiSelected, item |-> uiSelItem]

\* The name is one of the names listed.
Listed(items, name) == \E i \in 1 .. Len(items) : items[i] = name

\* FileUI.SetFile(file), where file.Funcs() is funcs and a Load succeeds
\* when ok: the file shown before is closed, the new one and its functions
\* are installed, and the selected name, if the new file has it, is loaded.
SetFile(file, funcs, ok) ==
  /\ uiClosed' = IF uiFile # 0 THEN uiClosed \cup {uiFile} ELSE uiClosed
  /\ uiFile' = file
  /\ SetItems(funcs)
  /\ uiCode' = IF uiSelected # "" /\ Listed(funcs, uiSelected)
                 THEN Load(Func(file, uiSelected), ok)
                 ELSE uiCode

\* Consumer loop, case file := <-fileLoaded: SetFile and w.Invalidate().
ConsumeFile ==
  /\ ~exited
  /\ mainPc = "select"
  /\ CanRecv(fileLoaded)
  /\ \E funcs \in FileFuncs, ok \in BOOLEAN :
       SetFile(Head(fileLoaded), funcs, ok)
  /\ uiShown' = NoShown
  /\ UNCHANGED uiFault
  /\ received' = Append(received, Head(fileLoaded))
  /\ fileLoaded' = Tail(fileLoaded)
  /\ UNCHANGED <<serverMode, watch, statFailed, fileLoadError, wPc, wRes, lastModTime,
                 produced, uiLoadError, exited>>
  /\ UNCHANGED <<pollVars, wLatest>>
  /\ UNCHANGED notUI

\* What Layout draws in the code area: the error text while ui.LoadError is
\* set, else the Code loaded, if any.
Shown(loadError, c) ==
  IF loadError # 0 THEN [error |-> loadError, code |-> NoFunc]
                   ELSE [error |-> 0, code |-> c]

\* ui.Layout: without a selection the first function is selected; a Code
\* that is missing or of another name is loaded from the selected item; then
\* the frame is drawn.
Layout ==
  /\ LET sel == IF uiSelected = "" THEN SelectIndex0
                                   ELSE [name |-> uiSelected, item |-> uiSelItem]
     IN /\ uiSelected' = sel.name
        /\ uiSelItem' = sel.item
        /\ \E ok \in BOOLEAN :
             uiCode' = IF (uiCode = NoFunc \/ uiCode.name # sel.name)
                            /\ sel.item # NoFunc
                         THEN Load(sel.item, ok)
                         ELSE uiCode
  /\ uiShown' = Shown(uiLoadError, uiCode')
  /\ UNCHANGED <<uiItems, uiFault, exited>>

\* tryOpen(call), run by a frame in which the user clicks a call in the code
\* area (drawn when there is no load error and a Code is loaded): the name
\* is looked up in ui.File.Funcs() and loaded; load.Name is read to select
\* it, which panics when Load returned nil (the deferred close(exited) runs).
tryOpen ==
  /\ uiLoadError = 0
  /\ uiCode # NoFunc
  /\ uiFile # 0
  /\ \E call \in FuncParams \cup {"main.main"}, ok \in BOOLEAN :
       IF ~Listed(uiItems, call)
         THEN UNCHANGED <<uiSelected, uiSelItem, uiCode, uiFault, exited>>
       ELSE IF Load(Func(uiFile, call), ok) = NoFunc
         THEN /\ uiFault' = TRUE
              /\ exited' = TRUE
              /\ UNCHANGED <<uiSelected, uiSelItem, uiCode>>
       ELSE /\ uiSelected' = call
            /\ uiSelItem' = Func(uiFile, call)
            /\ uiCode' = Load(Func(uiFile, call), ok)
            /\ UNCHANGED <<uiFault, exited>>
  /\ uiShown' = Shown(uiLoadError, uiCode')
  /\ UNCHANGED uiItems

\* Consumer loop, case app.FrameEvent: ui.Layout.
LayoutFrame ==
  /\ wPc # "off"
  /\ ~exited
  /\ Layout
  /\ UNCHANGED <<serverMode, watch, statFailed, fileLoaded, fileLoadError, wPc, wRes,
                 lastModTime, produced, received, uiFile, uiLoadError,
                 uiClosed>>
  /\ UNCHANGED <<pollVars, wLatest>>
  /\ UNCHANGED notUI

\* Consumer loop, case app.FrameEvent, with a click on a call.
TryOpen ==
  /\ wPc # "off"
  /\ ~exited
  /\ tryOpen
  /\ UNCHANGED <<serverMode, watch, statFailed, fileLoaded, fileLoadError, wPc, wRes,
                 lastModTime, produced, received, uiFile, uiLoadError,
                 uiClosed>>
  /\ UNCHANGED <<pollVars, wLatest>>
  /\ UNCHANGED notUI

\* Consumer loop, case app.DestroyEvent: Run returns and closes exited.
ConsumeDestroy ==
  /\ wPc # "off"
  /\ ~exited
  /\ exited' = TRUE
  /\ UNCHANGED <<serverMode, watch, statFailed, fileLoaded, fileLoadError, wPc, wRes,
                 lastModTime, produced, received, uiFile, uiLoadError,
                 uiClosed>>
  /\ UNCHANGED <<pollVars, wLatest, viewVars>>
  /\ UNCHANGED notUI

UINext ==
  \/ WatcherServerLoad \/ WatcherLocal \/ WatcherStat
  \/ LoadFinishedDrain \/ LoadFinishedSend
  \/ WatcherCheck \/ WatcherTick \/ WatcherExited
  \/ ConsumeError \/ ConsumeFile \/ ConsumeDestroy

\* The same with the window's frames.
ViewNext == UINext \/ LayoutFrame \/ TryOpen


\* ------------------- FileUI.Run: window events (event goroutine, acks)
EventTypes == {"frame", "other", "destroy"}

PumpInit ==
  /\ pumpPc = "event"
  /\ pumpEv = ""
  /\ mainPc = "select"
  /\ evFetched = 0
  /\ evSent = 0
  /\ evAcked = 0

PumpOff ==
  /\ pumpPc = "off"
  /\ pumpEv = ""
  /\ mainPc = "select"
  /\ evFetched = 0
  /\ evSent = 0
  /\ evAcked = 0

\* ev := w.Event() returns the window's next event.
PumpEvent ==
  /\ pumpPc = "event"
  /\ evFetched < MaxEvents
  /\ \E ev \in EventTypes : pumpEv' = ev
  /\ evFetched' = evFetched + 1
  /\ pumpPc' = "send"
  /\ UNCHANGED <<mainPc, evSent, evAcked>>
  /\ UNCHANGED <<uiVars, notRun>>

\* events <- ev meets the main loop's case e := <-events.
MainRecv ==
  /\ pumpPc = "send"
  /\ mainPc = "select"
  /\ evSent' = evSent + 1
  /\ pumpPc' = "ack"
  /\ mainPc' = "handle"
  /\ UNCHANGED <<pumpEv, evFetched, evAcked>>
  /\ UNCHANGED <<uiVars, notRun>>

\* case app.FrameEvent: ui.Layout(gtx) and e.Frame(gtx.Ops).
MainFrame ==
  /\ mainPc = "handle"
  /\ pumpEv = "frame"
  /\ Layout
  /\ mainPc' = "ack"
  /\ UNCHANGED <<pumpPc, pumpEv, evFetched, evSent, evAcked>>
  /\ UNCHANGED <<serverMode, watch, statFailed, fileLoaded, fileLoadError, wPc, wRes,
                 lastModTime, produced, received, uiFile, uiLoadError,
                 uiClosed>>
  /\ UNCHANGED <<pollVars, wLatest>>
  /\ UNCHANGED notRun

\* case app.FrameEvent, with a click on a call: tryOpen, which may panic.
MainClick ==
  /\ mainPc = "handle"
  /\ pumpEv = "frame"
  /\ tryOpen
  /\ mainPc' = IF uiFault' THEN "panic" ELSE "ack"
  /\ UNCHANGED <<pumpPc, pumpEv, evFetched, evSent, evAcked>>
  /\ UNCHANGED <<serverMode, watch, statFailed, fileLoaded, fileLoadError, wPc, wRes,
                 lastModTime, produced, received, uiFile, uiLoadError,
                 uiClosed>>
  /\ UNCHANGED <<pollVars, wLatest>>
  /\ UNCHANGED notRun

\* A DestroyEvent returns without the acknowledgement.
MainOtherSkipsAck ==
  /\ mainPc = "handle"
  /\ pumpEv \in {"other", "destroy"}
  /\ mainPc' = IF pumpEv = "destroy" THEN "return" ELSE "ack"
  /\ UNCHANGED <<pumpPc, pumpEv, evFetched, evSent, evAcked>>
  /\ UNCHANGED <<uiVars, notRun>>

\* case app.DestroyEvent, and every other event type: nothing is done
\* before the acknowledgement.
MainOther ==
  /\ mainPc = "handle"
  /\ pumpEv \in {"other", "destroy"}
  /\ mainPc' = "ack"
  /\ UNCHANGED <<pumpPc, pumpEv, evFetched, evSent, evAcked>>
  /\ UNCHANGED <<uiVars, notRun>>

\* acks <- struct{}{} meets the event goroutine's <-acks; after a
\* DestroyEvent the main loop goes on to return e.Err.
MainAck ==
  /\ mainPc = "ack"
  /\ pumpPc = "ack"
  /\ evAcked' = evAcked + 1
  /\ pumpPc' = "acked"
  /\ mainPc' = IF pumpEv = "destroy" THEN "return" ELSE "select"
  /\ UNCHANGED <<pumpEv, evFetched, evSent>>
  /\ UNCHANGED <<uiVars, notRun>>

\* Run returns: the deferred close(exited).
MainReturn ==
  /\ mainPc = "return"
  /\ mainPc' = "returned"
  /\ exited' = TRUE
  /\ UNCHANGED <<pumpPc, pumpEv, evFetched, evSent, evAcked>>
  /\ UNCHANGED <<serverMode, watch, statFailed, fileLoaded, fileLoadError, wPc, wRes,
                 lastModTime, produced, received, uiFile, uiLoadError,
                 uiClosed>>
  /\ UNCHANGED <<pollVars, wLatest, viewVars>>
  /\ UNCHANGED notRun

\* The event goroutine goes round its loop whatever the event was.
PumpLoopForever ==
  /\ pumpPc = "acked"
  /\ pumpPc' = "event"
  /\ UNCHANGED <<pumpEv, mainPc, evFetched, evSent, evAcked>>
  /\ UNCHANGED <<uiVars, notRun>>

\* if _, ok := ev.(app.DestroyEvent); ok { return }, else the next event.
PumpLoop ==
  /\ pumpPc = "acked"
  /\ pumpPc' = IF pumpEv = "destroy" THEN "done" ELSE "event"
  /\ UNCHANGED <<pumpEv, mainPc, evFetched, evSent, evAcked>>
  /\ UNCHANGED <<uiVars, notRun>>

\* Run with its three goroutines.
RunNext ==
  \/ WatcherServerLoad \/ WatcherLocal \/ WatcherStat
  \/ LoadFinishedDrain \/ LoadFinishedSend
  \/ WatcherCheck \/ WatcherTick \/ WatcherExited
  \/ ConsumeError \/ ConsumeFile
  \/ PumpEvent \/ MainRecv \/ MainFrame \/ MainClick \/ MainOther
  \/ MainAck \/ MainReturn \/ PumpLoop

\* ------------- NetworkFile.Close through the router (paths as strings)
\* Characters of a path; a file's path is non-empty and ends in a letter.
PathChars == {"/", "a", "."}

RECURSIVE SeqsUpTo(_, _)
SeqsUpTo(S, n) ==
  IF n = 0 THEN {<<>>}
  ELSE LET shorter == SeqsUpTo(S, n - 1)
       IN shorter \cup {Append(q, c) : q \in shorter, c \in S}

FilePaths == {Append(q, "a") : q \in SeqsUpTo(PathChars, MaxPathLen - 1)}

\* json.Marshal of the request body's path and its Decode on the server.
JsonEncode(str) == <<"\"">> \o str \o <<"\"">>
JsonDecode(js) == SubSeq(js, 2, Len(js) - 1)

\* url.PathEscape: "/" becomes %2F; letters and "." stay.
PathEscape(str) == [i \in 1 .. Len(str) |-> IF str[i] = "/" THEN "%2F" ELSE str[i]]

\* url.Parse on the server: URL.Path is the unescaped request path.
Unescape(w) == [i \in 1 .. Len(w) |-> IF w[i] = "%2F" THEN "/" ELSE w[i]]

\* URL.String() of a path without RawPath: "/" is not escaped.
EscapedPath(path) == path

ApiFiles == <<"/", "api", "/", "files">>

\* The segments between the slashes.
RECURSIVE Split(_)
Split(str) ==
  IF \A i \in 1 .. Len(str) : str[i] # "/" THEN <<str>>
  ELSE LET i == CHOOSE k \in 1 .. Len(str) :
                  str[k] = "/" /\ \A j \in 1 .. k - 1 : str[j] # "/"
       IN <<SubSeq(str, 1, i - 1)>> \o Split(SubSeq(str, i + 1, Len(str)))

\* path.Clean on a rooted path: empty and "." segments dropped, ".." drops
\* the segment before it.
RECURSIVE CleanSegs(_, _)
CleanSegs(segs, out) ==
  IF segs = <<>> THEN out
  ELSE LET seg == Head(segs)
       IN CleanSegs(Tail(segs),
            IF seg = <<>> \/ seg = <<".">> THEN out
            ELSE IF seg = <<".", ".">>
              THEN (IF out = <<>> THEN out ELSE SubSeq(out, 1, Len(out) - 1))
            ELSE Append(out, seg))

RECURSIVE Join(_)
Join(segs) ==
  IF segs = <<>> THEN <<>> ELSE <<"/">> \o Head(segs) \o Join(Tail(segs))

\* mux cleanPath: path.Clean of the rooted path, the trailing slash kept.
cleanPath(path) ==
  IF path = <<>> THEN <<"/">>
  ELSE LET rooted == IF path[1] # "/" THEN <<"/">> \o path ELSE path
           segs == CleanSegs(Split(rooted), <<>>)
           np == IF segs = <<>> THEN <<"/">> ELSE Join(segs)
       IN IF rooted[Len(rooted)] = "/" /\ np # <<"/">> THEN Append(np, "/") ELSE np

\* The route /api/files/{path:.+} and its variable.
MatchesFileRoute(path) ==
  /\ Len(path) > Len(ApiFiles) + 1
  /\ SubSeq(path, 1, Len(ApiFiles) + 1) = Append(ApiFiles, "/")

RouteVar(path) == SubSeq(path, Len(ApiFiles) + 2, Len(path))

RouteInit ==
  /\ rtPath \in FilePaths
  /\ rtKeys = {}
  /\ rtPc = "new"
  /\ rtMethod = ""
  /\ rtWire = <<>>
  /\ rtStatus = 0
  /\ rtLoc = <<>>
  /\ rtErr = FALSE

RouteOff ==
  /\ rtPath = <<>>
  /\ rtKeys = {}
  /\ rtPc = "off"
  /\ rtMethod = ""
  /\ rtWire = <<>>
  /\ rtStatus = 0
  /\ rtLoc = <<>>
  /\ rtErr = FALSE

\* NewNetworkFile: Client.LoadFile posts {"path": p}; handleFiles stores the
\* Executable under req.Path.
NewNetworkFile ==
  /\ rtPc = "new"
  /\ rtKeys' = rtKeys \cup {JsonDecode(JsonEncode(rtPath))}
  /\ rtPc' = "open"
  /\ UNCHANGED <<rtPath, rtMethod, rtWire, rtStatus, rtLoc, rtErr>>
  /\ UNCHANGED notRoute

\* NetworkFile.Close: DELETE baseURL/api/files/<PathEscape(path)>.
CloseRequest ==
  /\ rtPc = "open"
  /\ rtMethod' = "DELETE"
  /\ rtWire' = Append(ApiFiles, "/") \o PathEscape(rtPath)
  /\ rtPc' = "sent"
  /\ UNCHANGED <<rtPath, rtKeys, rtStatus, rtLoc, rtErr>>
  /\ UNCHANGED notRoute

\* The router: a path that is not clean is redirected (301); a clean one is
\* matched against the routes, and the DELETE handler deletes the entry of
\* its path variable (200) or finds none (404).  A method the matched route
\* does not list gets 405, or 404 from a router too old to tell them apart.
RouteServe ==
  /\ rtPc = "sent"
  /\ LET path == Unescape(rtWire)
     IN IF cleanPath(path) # path
          THEN /\ rtStatus' = StatusMovedPermanently
               /\ rtLoc' = EscapedPath(cleanPath(path))
               /\ UNCHANGED rtKeys
        ELSE IF MatchesFileRoute(path) /\ rtMethod = "DELETE"
          THEN /\ rtStatus' = IF RouteVar(path) \in rtKeys THEN StatusOK
                                                            ELSE StatusNotFound
               /\ rtKeys' = rtKeys \ {RouteVar(path)}
               /\ UNCHANGED rtLoc
        ELSE IF MatchesFileRoute(path)
          THEN /\ rtStatus' \in {StatusNotFound, StatusMethodNotAllowed}
               /\ UNCHANGED <<rtKeys, rtLoc>>
        ELSE /\ rtStatus' = StatusNotFound
             /\ UNCHANGED <<rtKeys, rtLoc>>
  /\ rtPc' = "answered"
  /\ UNCHANGED <<rtPath, rtMethod, rtWire, rtErr>>
  /\ UNCHANGED notRoute

\* http.Client follows a 301: to the Location, with GET unless the method
\* was GET or HEAD.
FollowRedirect ==
  /\ rtPc = "answered"
  /\ rtStatus = StatusMovedPermanently
  /\ rtMethod' = IF rtMethod \in {"GET", "HEAD"} THEN rtMethod ELSE "GET"
  /\ rtWire' = rtLoc
  /\ rtPc' = "sent"
  /\ UNCHANGED <<rtPath, rtKeys, rtStatus, rtLoc, rtErr>>
  /\ UNCHANGED notRoute

\* NetworkFile.Close returns: an error unless the status is 200.
CloseReturn ==
  /\ rtPc = "answered"
  /\ rtStatus # StatusMovedPermanently
  /\ rtErr' = (rtStatus # StatusOK)
  /\ rtPc' = "closed"
  /\ UNCHANGED <<rtPath, rtKeys, rtMethod, rtWire, rtStatus, rtLoc>>
  /\ UNCHANGED notRoute

RouteNext ==
  NewNetworkFile \/ CloseRequest \/ RouteServe \/ FollowRedirect \/ CloseReturn

\* --------------------------- HTTP client (Client, NetworkFile, NetworkFunc)
NoErr == [msg |-> "", detail |-> ""]
NoCode == [name |-> "", context |-> -1]
NoNet == [err |-> "", status |-> 0, body |-> NoCode]

\* disasm.Code as far as the caller's options shape it.
Code(name, context) == [name |-> name, context |-> context]

\* fmt.Sprintf("%d", context)
Sprintf(n) == Numerals[n + 1]

\* GetFunctionCode: the context parameter is added when context > 0.
ContextQuery(context) == IF context > 0 THEN Sprintf(context) ELSE ""

\* What httpClient.Get/Do return when the request does not get through.
TransportErrs == {"timeout", "connection refused"}

\* handleFunctionOperations, for one request: the response.
ServeCode(registered, name, query, default, loaded) ==
  IF ~registered
    THEN [err |-> "", status |-> StatusNotFound, body |-> "File not found"]
  ELSE IF \A i \in 1 .. Len(ExeFuncs) : ExeFuncs[i] # name
    THEN [err |-> "", status |-> StatusNotFound, body |-> "Function not found"]
  ELSE IF query # "" /\ ~AtoiOK(query)
    THEN [err |-> "", status |-> StatusBadRequest,
          body |-> "Invalid context value"]
  ELSE IF ~loaded
    THEN [err |-> "", status |-> StatusInternalServerError,
          body |-> "Failed to load function code"]
  ELSE [err |-> "", status |-> StatusOK,
        body |-> Code(name, IF query = "" THEN default ELSE Atoi(query))]

\* handleFileOperations, for one request: the response.
ServeClose(registered) ==
  IF registered
    THEN [err |-> "", status |-> StatusOK, body |-> ""]
    ELSE [err |-> "", status |-> StatusNotFound, body |-> "File not found"]

\* handleFiles POST, for one request: a registered path is answered 200
\* without a load, another one is loaded and stored.
ServeOpen(registered, loaded) ==
  IF registered
    THEN [err |-> "", status |-> StatusOK, body |-> ""]
  ELSE IF ~loaded
    THEN [err |-> "", status |-> StatusInternalServerError,
          body |-> "Failed to load file"]
  ELSE [err |-> "", status |-> StatusCreated, body |-> ""]

\* Client.LoadFile, from httpClient.Do on: the error returned.
ClientLoadFile(net) ==
  IF net.err # ""
    THEN [msg |-> "error sending request", detail |-> net.err]
  ELSE IF net.status # StatusCreated /\ net.status # StatusOK
    THEN [msg |-> "server error", detail |-> net.body]
  ELSE NoErr

\* Client.GetFunctionCode, from httpClient.Get on: [code, err].
GetFunctionCode(net) ==
  IF net.err # ""
    THEN [code |-> NoCode,
          err |-> [msg |-> "error sending request", detail |-> net.err]]
  ELSE IF net.status # StatusOK
    THEN [code |-> NoCode,
          err |-> [msg |-> "server error", detail |-> net.body]]
  ELSE [code |-> net.body, err |-> NoErr]

\* NetworkFunc.Load: the error is printed, the caller gets nil.
NetworkFuncLoad(r) == IF r.err # NoErr THEN NoCode ELSE r.code

\* NetworkFile.Close, from httpClient.Do on: the error returned.
NetworkFileClose(net) ==
  IF net.err # "" THEN [msg |-> net.err, detail |-> ""]
  ELSE IF net.status # StatusOK
    THEN [msg |-> "server error", detail |-> net.body]
  ELSE NoErr

ClientInit ==
  /\ cPc = "call"
  /\ cOp = "load"
  /\ cName = ""
  /\ cCtx = 0
  /\ cQuery = ""
  /\ cDefault \in 0 .. MaxCtx
  /\ cRegistered \in BOOLEAN
  /\ cNet = NoNet
  /\ cCause = ""
  /\ cErr = NoErr
  /\ cRet = NoCode
  /\ cDisk = 1
  /\ cExe = IF cRegistered THEN 1 ELSE 0
  /\ cSeen = 0
  /\ cReopened = FALSE

ClientOff ==
  /\ cPc = "off"
  /\ cOp = "load"
  /\ cName = ""
  /\ cCtx = 0
  /\ cQuery = ""
  /\ cDefault = 0
  /\ cRegistered = FALSE
  /\ cNet = NoNet
  /\ cCause = ""
  /\ cErr = NoErr
  /\ cRet = NoCode
  /\ cDisk = 0
  /\ cExe = 0
  /\ cSeen = 0
  /\ cReopened = FALSE

\* The caller calls fn.Load(opt): GetFunctionCode builds the request.
CallLoad ==
  /\ cPc = "call"
  /\ \E name \in FuncParams, c \in 0 .. MaxCtx :
       /\ cName' = name
       /\ cCtx' = c
       /\ cQuery' = ContextQuery(c)
  /\ cOp' = "load"
  /\ cPc' = "sent"
  /\ UNCHANGED <<cDefault, cRegistered, cNet, cCause, cErr, cRet>>
  /\ UNCHANGED diskVars
  /\ UNCHANGED notClient

\* The caller calls LoadNetworkFile: Client.LoadFile builds a POST request.
CallOpen ==
  /\ cPc = "call"
  /\ cOp' = "open"
  /\ cPc' = "sent"
  /\ UNCHANGED <<cName, cCtx, cQuery, cDefault, cRegistered, cNet, cCause,
                 cErr, cRet>>
  /\ UNCHANGED diskVars
  /\ UNCHANGED notClient

\* The executable at the path is rebuilt.
FileChanges ==
  /\ cPc # "off"
  /\ cDisk < MaxDisk
  /\ cDisk' = cDisk + 1
  /\ cReopened' = FALSE
  /\ UNCHANGED <<cPc, cOp, cName, cCtx, cQuery, cDefault, cRegistered, cNet,
                 cCause, cErr, cRet, cExe, cSeen>>
  /\ UNCHANGED notClient

\* The caller calls file.Close(): a DELETE request is built.
CallClose ==
  /\ cPc = "call"
  /\ cOp' = "close"
  /\ cPc' = "sent"
  /\ UNCHANGED <<cName, cCtx, cQuery, cDefault, cRegistered, cNet, cCause,
                 cErr, cRet>>
  /\ UNCHANGED diskVars
  /\ UNCHANGED notClient

\* The request does not get through: the 30 s timeout of the http.Client
\* expires, or the connection fails.
TransportFails ==
  /\ cPc = "sent"
  /\ \E e \in TransportErrs :
       /\ cNet' = [err |-> e, status |-> 0, body |-> ""]
       /\ cCause' = e
  /\ cPc' = "replied"
  /\ UNCHANGED <<cOp, cName, cCtx, cQuery, cDefault, cRegistered, cErr, cRet>>
  /\ UNCHANGED diskVars
  /\ UNCHANGED notClient

\* The server handles the request and its response gets back.
ServerReplies ==
  /\ cPc = "sent"
  /\ \E loaded \in BOOLEAN :
       LET r == CASE cOp = "load" ->
                       ServeCode(cRegistered, cName, cQuery, cDefault, loaded)
                  [] cOp = "open" -> ServeOpen(cRegistered, loaded)
                  [] OTHER -> ServeClose(cRegistered)
           stored == cOp = "open" /\ r.status = StatusCreated
       IN /\ cNet' = r
          /\ cCause' = CASE r.status = StatusOK -> "ok"
                         [] r.status = StatusCreated -> "created"
                         [] r.status = StatusNotFound -> "not found"
                         [] r.status = StatusBadRequest -> "bad request"
                         [] OTHER -> "decode failure"
          /\ cRegistered' = IF cOp = "close" THEN FALSE
                            ELSE IF stored THEN TRUE ELSE cRegistered
          /\ cExe' = IF cOp = "close" THEN 0
                     ELSE IF stored THEN cDisk ELSE cExe
          /\ cSeen' = IF cOp = "load" /\ r.status = StatusOK
                        THEN cExe ELSE cSeen
          /\ cReopened' = IF cOp = "open" /\ ClientLoadFile(r) = NoErr
                            THEN TRUE ELSE cReopened
  /\ cPc' = "replied"
  /\ UNCHANGED <<cOp, cName, cCtx, cQuery, cDefault, cErr, cRet, cDisk>>
  /\ UNCHANGED notClient

\* NetworkFunc.Load returns to its caller.
ReturnLoad ==
  /\ cPc = "replied"
  /\ cOp = "load"
  /\ cErr' = GetFunctionCode(cNet).err
  /\ cRet' = NetworkFuncLoad(GetFunctionCode(cNet))
  /\ cPc' = "done"
  /\ UNCHANGED <<cOp, cName, cCtx, cQuery, cDefault, cRegistered, cNet, cCause>>
  /\ UNCHANGED diskVars
  /\ UNCHANGED notClient

\* Client.LoadFile returns to its caller.
ReturnOpen ==
  /\ cPc = "replied"
  /\ cOp = "open"
  /\ cErr' = ClientLoadFile(cNet)
  /\ cRet' = ClientLoadFile(cNet)
  /\ cPc' = "done"
  /\ UNCHANGED <<cOp, cName, cCtx, cQuery, cDefault, cRegistered, cNet, cCause>>
  /\ UNCHANGED diskVars
  /\ UNCHANGED notClient

\* NetworkFile.Close returns to its caller.
ReturnClose ==
  /\ cPc = "replied"
  /\ cOp = "close"
  /\ cErr' = NetworkFileClose(cNet)
  /\ cRet' = NetworkFileClose(cNet)
  /\ cPc' = "done"
  /\ UNCHANGED <<cOp, cName, cCtx, cQuery, cDefault, cRegistered, cNet, cCause>>
  /\ UNCHANGED diskVars
  /\ UNCHANGED notClient

\* The caller goes on to its next call.
NextCall ==
  /\ cPc = "done"
  /\ cPc' = "call"
  /\ UNCHANGED <<cOp, cName, cCtx, cQuery, cDefault, cRegistered, cNet, cCause,
                 cErr, cRet>>
  /\ UNCHANGED diskVars
  /\ UNCHANGED notClient

ClientNext ==
  \/ CallLoad \/ CallClose \/ TransportFails \/ ServerReplies
  \/ ReturnLoad \/ ReturnClose \/ NextCall
  \/ CallOpen \/ ReturnOpen \/ FileChanges

\* ------------------------------------------------- line-table resolver
\* The result "unknown".
Unknown == [file |-> NoFile, line |-> 0]

\* One entry: the addresses [address, address + size) belong to file:line.
LineEntries ==
  [address : 0 .. MaxAddr, size : 1 .. 2, file : {"a.go"}, line : 1 .. 2]

\* The tables built from the metadata: sorted by address, the ranges of two
\* entries never overlap; between them there may be a gap.
LineTables ==
  {t \in UNION {[1 .. n -> LineEntries] : n \in 0 .. MaxEntries} :
     \A i \in 1 .. Len(t) - 1 : t[i].address + t[i].size <= t[i + 1].address}

\* The entry's range holds every address from its own on.
CoversAlways(e, a) == TRUE

\* The address lies in the entry's range.
Covers(e, a) == e.address <= a /\ a < e.address + e.size

LinesInit ==
  /\ lnTable \in LineTables
  /\ lnQuery \in 0 .. MaxAddr + 2
  /\ lnLo = 0
  /\ lnHi = Len(lnTable)
  /\ lnResult = Unknown
  /\ lnState = "search"

LinesOff ==
  /\ lnTable = <<>>
  /\ lnQuery = 0
  /\ lnLo = 0
  /\ lnHi = 0
  /\ lnResult = Unknown
  /\ lnState = "off"

\* One halving of the binary search for the last entry whose address is
\* not greater than the query (0: there is none).
LookupStep ==
  /\ lnState = "search"
  /\ lnLo < lnHi
  /\ LET mid == (lnLo + lnHi + 1) \div 2
     IN IF lnTable[mid].address <= lnQuery
          THEN lnLo' = mid /\ UNCHANGED lnHi
          ELSE lnHi' = mid - 1 /\ UNCHANGED lnLo
  /\ UNCHANGED <<lnTable, lnQuery, lnResult, lnState>>
  /\ UNCHANGED notLines

\* The search is over: the entry found gives (file, line) when its range
\* holds the query; before the first entry and in a gap the result is
\* "unknown".
LookupFinish ==
  /\ lnState = "search"
  /\ lnLo >= lnHi
  /\ lnResult' = IF lnLo = 0 THEN Unknown
                 ELSE IF Covers(lnTable[lnLo], lnQuery)
                   THEN [file |-> lnTable[lnLo].file,
                         line |-> lnTable[lnLo].line]
                 ELSE Unknown
  /\ lnState' = "done"
  /\ UNCHANGED <<lnTable, lnQuery, lnLo, lnHi>>
  /\ UNCHANGED notLines

LinesNext == LookupStep \/ LookupFinish

\* -------------------------------------------------- reference resolver
\* A call or jump through a register has no target address.
NoTarget == -1

\* The address of instruction i; i = Len(xSizes) + 1 gives functionEnd.
RECURSIVE XPc(_)
XPc(i) == IF i = 1 THEN xStart ELSE XPc(i - 1) + xSizes[i - 1]

XEnd == XPc(Len(xSizes) + 1)

\* The binary's other function, after a gap of one byte.
OtherSym == [name |-> "main.other", address |-> XEnd + 1, size |-> 2]

\* The target lies within the function resolved.
InFunction(t) == t # NoTarget /\ xStart <= t /\ t < XEnd

\* The name of the known symbol elsewhere in the binary whose range holds
\* the target: the symbol that starts at the target, else the nearest
\* symbol before it; "" when there is none.
SymbolAt(t) ==
  IF t = OtherSym.address THEN OtherSym.name
  ELSE IF /\ t > OtherSym.address
          /\ t < OtherSym.address + OtherSym.size THEN OtherSym.name
  ELSE ""

\* The index of the instruction a target inside the function refers to:
\* the instruction at that address; for an address inside an instruction,
\* that instruction or the next one.
TargetIndexes(t) ==
  LET at == {k \in 1 .. Len(xSizes) : XPc(k) = t}
      in == {k \in 1 .. Len(xSizes) : XPc(k) < t /\ t < XPc(k + 1)}
  IN IF at # {} THEN at
     ELSE in \cup {k + 1 : k \in {j \in in : j < Len(xSizes)}}

Transfers == {"jmp", "jcc", "call"}

\* What an instruction of the function can be: sequential (or a return), or
\* a jump, branch or call with a target address or none.
XOpsAt ==
  {[kind |-> "seq", target |-> NoTarget]} \cup
  {[kind |-> k, target |-> t] :
     k \in Transfers, t \in (0 .. XEnd + 2) \cup {NoTarget}}

NoXref == [refPC |-> 0, refOffset |-> 0, refStack |-> 0, call |-> ""]

\* The target's index itself as refOffset.
ResolveAbsolute(i, op, k) ==
  IF op.kind \in {"jmp", "jcc"} /\ InFunction(op.target)
    THEN [refPC |-> op.target, refOffset |-> k, refStack |-> 0,
          call |-> ""]
  ELSE IF op.kind \in Transfers /\ op.target # NoTarget
    THEN [NoXref EXCEPT !.call = SymbolAt(op.target)]
  ELSE NoXref

\* The references of instruction i, classified op, with target index k.
Resolve(i, op, k) ==
  IF op.kind \in {"jmp", "jcc"} /\ InFunction(op.target)
    THEN [refPC |-> op.target, refOffset |-> k - i, refStack |-> 0,
          call |-> ""]
  ELSE IF op.kind \in Transfers /\ op.target # NoTarget
    THEN [NoXref EXCEPT !.call = SymbolAt(op.target)]
  ELSE NoXref

\* The instructions that became arcs.
XArcs == {i \in 1 .. Len(xOut) :
            xOps[i].kind \in {"jmp", "jcc"} /\ InFunction(xOps[i].target)}

XrefInit ==
  /\ xStart \in 0 .. MaxStart
  /\ xSizes \in UNION {[1 .. n -> 1 .. 2] : n \in 1 .. MaxXref}
  /\ xOps = <<>>
  /\ xOut = <<>>
  /\ xState = "resolve"

XrefOff ==
  /\ xStart = 0
  /\ xSizes = <<>>
  /\ xOps = <<>>
  /\ xOut = <<>>
  /\ xState = "off"

\* The next instruction is classified and its references are resolved.
XrefStep ==
  /\ xState = "resolve"
  /\ Len(xOut) < Len(xSizes)
  /\ LET i == Len(xOut) + 1
     IN \E op \in XOpsAt :
          /\ xOps' = Append(xOps, op)
          /\ IF op.kind \in {"jmp", "jcc"} /\ InFunction(op.target)
               THEN \E k \in TargetIndexes(op.target) :
                      xOut' = Append(xOut, Resolve(i, op, k))
               ELSE xOut' = Append(xOut, Resolve(i, op, 0))
  /\ UNCHANGED <<xStart, xSizes, xState>>
  /\ UNCHANGED notXref

\* All instructions are resolved: the arcs go to the lane layout.
XrefFinish ==
  /\ xState = "resolve"
  /\ Len(xOut) = Len(xSizes)
  /\ xState' = "lanes"
  /\ UNCHANGED <<xStart, xSizes, xOps, xOut>>
  /\ UNCHANGED notXref

\* The lane layout gives every arc a lane refStack >= 0.
XrefLanes ==
  /\ xState = "lanes"
  /\ \E lane \in [XArcs -> 0 .. MaxLane] :
       xOut' = [i \in 1 .. Len(xOut) |->
                  IF i \in XArcs THEN [xOut[i] EXCEPT !.refStack = lane[i]]
                                 ELSE xOut[i]]
  /\ xState' = "done"
  /\ UNCHANGED <<xStart, xSizes, xOps>>
  /\ UNCHANGED notXref

XrefNext == XrefStep \/ XrefFinish \/ XrefLanes

\* ------------------------------- VS Code extension (GoASMViewProvider)
PanelIds == 1 .. MaxPanels

\* The four listeners the constructor registers in _disposables.
Listeners == 4

OpenPanels == {p \in PanelIds : panels[p] = "open"}

PanelInit ==
  /\ currentPanel = 0
  /\ panels = [p \in PanelIds |-> "none"]
  /\ panelColumn = [p \in PanelIds |-> 0]
  /\ disposables = [p \in PanelIds |-> 0]
  /\ nextPanel = 1
  /\ activeColumn \in 0 .. MaxColumns
  /\ revealed = 0

PanelOff ==
  /\ currentPanel = 0
  /\ panels = [p \in PanelIds |-> "none"]
  /\ panelColumn = [p \in PanelIds |-> 0]
  /\ disposables = [p \in PanelIds |-> 0]
  /\ nextPanel = 0
  /\ activeColumn = 0
  /\ revealed = 0

\* createOrShow never looks at currentPanel.
HasCurrentPanelNever == FALSE

\* if (GoASMViewProvider.currentPanel)
HasCurrentPanel == currentPanel # 0

\* The command goasm.showAsm: createOrShow reveals the current panel in the
\* active editor's column, or creates a panel there (in column One without
\* an active editor) and makes its provider the current one.
ShowAsm ==
  /\ nextPanel # 0
  /\ IF HasCurrentPanel
       THEN /\ panelColumn' =
                 IF activeColumn # 0
                   THEN [panelColumn EXCEPT ![currentPanel] = activeColumn]
                   ELSE panelColumn
            /\ revealed' = currentPanel
            /\ UNCHANGED <<currentPanel, panels, disposables, nextPanel>>
       ELSE /\ nextPanel <= MaxPanels
            /\ panels' = [panels EXCEPT ![nextPanel] = "open"]
            /\ panelColumn' = [panelColumn EXCEPT ![nextPanel] =
                                 IF activeColumn # 0 THEN activeColumn ELSE 1]
            /\ disposables' = [disposables EXCEPT ![nextPanel] = Listeners]
            /\ currentPanel' = nextPanel
            /\ nextPanel' = nextPanel + 1
            /\ revealed' = 0
  /\ UNCHANGED activeColumn
  /\ UNCHANGED notPanel

\* The user moves to another editor, or closes the last one.
FocusEditor ==
  /\ nextPanel # 0
  /\ \E c \in 0 .. MaxColumns : c # activeColumn /\ activeColumn' = c
  /\ UNCHANGED <<currentPanel, panels, panelColumn, disposables, nextPanel,
                 revealed>>
  /\ UNCHANGED notPanel

\* dispose() of the provider of panel p: currentPanel is cleared, the panel
\* is disposed (its onDidDispose listener runs dispose() once more, which
\* finds the panel disposed), and the listeners are removed.
Dispose(p) ==
  /\ currentPanel' = 0
  /\ panels' = [panels EXCEPT ![p] = "disposed"]
  /\ disposables' = [disposables EXCEPT ![p] = 0]

\* The user closes panel p: VS Code disposes it and fires onDidDispose,
\* whose listener, while registered, calls dispose().
UserCloses(p) ==
  /\ panels[p] = "open"
  /\ IF disposables[p] > 0
       THEN Dispose(p)
       ELSE /\ panels' = [panels EXCEPT ![p] = "disposed"]
            /\ UNCHANGED <<currentPanel, disposables>>
  /\ UNCHANGED <<panelColumn, nextPanel, activeColumn, revealed>>
  /\ UNCHANGED notPanel

\* The program calls GoASMViewProvider.currentPanel.dispose().
DisposeCurrent ==
  /\ currentPanel # 0
  /\ Dispose(currentPanel)
  /\ UNCHANGED <<panelColumn, nextPanel, activeColumn, revealed>>
  /\ UNCHANGED notPanel

PanelNext ==
  \/ ShowAsm \/ FocusEditor \/ DisposeCurrent
  \/ \E p \in PanelIds : UserCloses(p)

\* ------------------------------------------------------- specifications
\* Each specification runs one component; the others stay switched off.
InitLayout ==
  LayoutInit /\ DecodeOff /\ BlocksOff /\ ServerOff /\ UIOff /\ ClientOff /\ PanelOff /\ XrefOff /\ LinesOff /\ PumpOff /\ RouteOff
InitDecode ==
  DecodeInit /\ LayoutOff /\ BlocksOff /\ ServerOff /\ UIOff /\ ClientOff /\ PanelOff /\ XrefOff /\ LinesOff /\ PumpOff /\ RouteOff
InitBlocks ==
  BlocksInit /\ LayoutOff /\ DecodeOff /\ ServerOff /\ UIOff /\ ClientOff /\ PanelOff /\ XrefOff /\ LinesOff /\ PumpOff /\ RouteOff
InitServer ==
  ServerInit /\ LayoutOff /\ DecodeOff /\ BlocksOff /\ UIOff /\ ClientOff /\ PanelOff /\ XrefOff /\ LinesOff /\ PumpOff /\ RouteOff
InitUI ==
  UIInit /\ LayoutOff /\ DecodeOff /\ BlocksOff /\ ServerOff /\ ClientOff /\ PanelOff /\ XrefOff /\ LinesOff /\ PumpOff /\ RouteOff
InitClient ==
  ClientInit /\ LayoutOff /\ DecodeOff /\ BlocksOff /\ ServerOff /\ UIOff /\ PanelOff /\ XrefOff /\ LinesOff /\ PumpOff /\ RouteOff
InitPanel ==
  PanelInit /\ DecodeOff /\ BlocksOff /\ ServerOff /\ UIOff /\ ClientOff /\ LayoutOff /\ XrefOff /\ LinesOff /\ PumpOff /\ RouteOff
InitXref ==
  XrefInit /\ DecodeOff /\ BlocksOff /\ ServerOff /\ UIOff /\ ClientOff /\ PanelOff /\ LayoutOff /\ LinesOff /\ PumpOff /\ RouteOff
InitLines ==
  LinesInit /\ DecodeOff /\ BlocksOff /\ ServerOff /\ UIOff /\ ClientOff /\ PanelOff /\ XrefOff /\ LayoutOff /\ PumpOff /\ RouteOff
InitRun ==
  PumpInit /\ DecodeOff /\ BlocksOff /\ ServerOff /\ UIInit /\ ClientOff /\ PanelOff /\ XrefOff /\ LinesOff /\ LayoutOff /\ RouteOff
InitRoute ==
  RouteInit /\ DecodeOff /\ BlocksOff /\ ServerOff /\ UIOff /\ ClientOff /\ PanelOff /\ XrefOff /\ LinesOff /\ PumpOff /\ LayoutOff

SpecLayout == InitLayout /\ [][LayoutNext]_vars

SpecDecode == InitDecode /\ [][DecodeNext]_vars

SpecBlocks == InitBlocks /\ [][BlocksNext]_vars

SpecServer == InitServer /\ [][ServerNext]_vars

SpecUI == InitUI /\ [][UINext]_vars

SpecClient == InitClient /\ [][ClientNext]_vars

SpecView == InitUI /\ [][ViewNext]_vars

SpecPanel == InitPanel /\ [][PanelNext]_vars

SpecXref == InitXref /\ [][XrefNext]_vars

SpecLines == InitLines /\ [][LinesNext]_vars

SpecRun == InitRun /\ [][RunNext]_vars

SpecRoute == InitRoute /\ [][RouteNext]_vars

\* The goroutines are scheduled: a step that stays possible is taken, and a
\* select that is reached again and again with exited closed takes that
\* case in the end (Go chooses among the ready cases at random).
SpecRunFair ==
  /\ SpecRun
  /\ WF_vars(WatcherServerLoad \/ WatcherLocal \/ WatcherStat \/ LoadFinishedDrain \/ LoadFinishedSend \/ WatcherCheck \/ WatcherTick)
  /\ SF_vars(WatcherExited)
  /\ WF_vars(MainRecv \/ MainFrame \/ MainClick \/ MainOther \/ MainAck \/ MainReturn)
  /\ WF_vars(PumpLoop)

\* The watcher goroutine is scheduled; nothing is assumed of the consumer.
SpecWatcherFair ==
  /\ SpecUI
  /\ WF_vars(LoadFinishedDrain) /\ WF_vars(LoadFinishedSend)

\* The consumer loop and the watcher goroutine are scheduled: a receive that
\* stays possible is made, a watcher step that stays possible is taken.
SpecUIFair ==
  /\ SpecUI
  /\ WF_vars(ConsumeError) /\ WF_vars(ConsumeFile)
  /\ WF_vars(LoadFinishedDrain) /\ WF_vars(LoadFinishedSend)
  /\ WF_vars(WatcherCheck) /\ WF_vars(WatcherTick)

\* The decode loop is sequential code that runs to completion.
SpecDecodeFair == SpecDecode /\ WF_vars(DecodeNext)

\* ---------------------------------------------- claims on the arc layout
PlacedArcs == ArcsOf(jumps) \ laPending

\* C1: any two arcs whose [min(pc,refPC), max(pc,refPC)] intervals properly
\* overlap are given different refStack values by the sweep.
C1_OverlapDistinctLanes ==
  \A a \in PlacedArcs : \A b \in PlacedArcs :
    (a # b /\ ProperlyOverlap(jumps, a, b)) => refStack[a] # refStack[b]

\* Scenario B: arcs 0 -> 3 and 1 -> 4 cross and get two lanes.
C1_Witness ==
  /\ laPc = "done"
  /\ ArcsOf(jumps) = {0, 1} /\ jumps[0] = 3 /\ jumps[1] = 4
  /\ ProperlyOverlap(jumps, 0, 1)
  /\ refStack[0] # refStack[1]
  /\ maxJumpLanes = 2

\* C2: every refStack is >= 0, maxJumpLanes is 1 + the largest refStack of an
\* arc and 0 without arcs; a lone forward jump gets refStack 0, maxJump 1.
C2_MaxJumpLanes ==
  laPc = "done" =>
    /\ \A pc \in PCs : refStack[pc] >= 0
    /\ maxJumpLanes =
         (IF ArcsOf(jumps) = {} THEN 0
          ELSE 1 + SetMax({refStack[a] : a \in ArcsOf(jumps)}))
    /\ \A a \in PCs :
         (ArcsOf(jumps) = {a} /\ jumps[a] > a) =>
           (refStack[a] = 0 /\ maxJumpLanes = 1)

\* Scenario A: one forward jump over the 2nd instruction.
C2_Witness ==
  /\ laPc = "done"
  /\ ArcsOf(jumps) = {0} /\ jumps[0] = 2
  /\ refStack[0] = 0 /\ refStack[2] = 0
  /\ maxJumpLanes = 1

\* Lane assignments of the arcs of j with k lanes in which every two arcs
\* that conflict get different lanes.
ValidAssignments(j, k, Conflict(_, _, _)) ==
  {f \in [ArcsOf(j) -> 0 .. k - 1] :
     \A a \in ArcsOf(j) : \A b \in ArcsOf(j) :
       (a # b /\ Conflict(j, a, b)) => f[a] # f[b]}

MinLanes(j, Conflict(_, _, _)) ==
  SetMin({k \in 0 .. Cardinality(ArcsOf(j)) :
            ValidAssignments(j, k, Conflict) # {}})

Intersect(j, a, b) == ~Disjoint(j, a, b)

\* C3 as stated: the sweep uses the fewest lanes of any assignment that
\* separates every two properly overlapping arcs.
C3_OptimalForProperOverlap ==
  laPc = "done" => maxJumpLanes = MinLanes(jumps, ProperlyOverlap)

\* C3 as amended: the sweep uses the fewest lanes of any assignment that
\* separates every two arcs whose intervals share an address (crossing,
\* touching or nested); it is optimal for the interval graph.
C3_OptimalForIntersection ==
  laPc = "done" =>
    /\ [a \in ArcsOf(jumps) |-> refStack[a]]
         \in ValidAssignments(jumps, maxJumpLanes, Intersect)
    /\ \A k \in 0 .. maxJumpLanes - 1 :
         ValidAssignments(jumps, k, Intersect) = {}

\* Three arcs, a lane reused after retiring, a nested pair on two lanes.
C3_Witness ==
  /\ laPc = "done"
  /\ Cardinality(ArcsOf(jumps)) = 3
  /\ maxJumpLanes = 2
  /\ \E a \in ArcsOf(jumps) : \E b \in ArcsOf(jumps) :
       /\ a # b /\ Contains(jumps, a, b) /\ ~Contains(jumps, b, a)
       /\ refStack[a] # refStack[b]
  /\ \E a \in ArcsOf(jumps) : \E b \in ArcsOf(jumps) :
       a # b /\ refStack[a] = refStack[b]

\* ------------------------------------------------- claims on the decoder
\* The whole decode of a byte range that starts at address start, computed
\* from the front.
RECURSIVE DecodeFrom(_, _, _)
DecodeFrom(bs, off, start) ==
  IF off >= Len(bs) THEN <<>>
  ELSE LET d == DecodeOne(bs, off)
       IN <<[pc |-> start + off, size |-> d.size, text |-> d.text]>>
            \o DecodeFrom(bs, off + d.size, start)

\* C4: the instructions decoded start at functionStart, are strictly
\* increasing in pc and their ranges [pc, pc+size) tile
\* [functionStart, functionEnd): no gap, no overlap, nothing past the end.
C4_InstructionsTile ==
  /\ decPc <= functionEnd
  /\ \A i \in 1 .. Len(insts) :
       /\ insts[i].size >= 1
       /\ insts[i].pc = (IF i = 1 THEN functionStart
                         ELSE insts[i - 1].pc + insts[i - 1].size)
       /\ insts[i].pc + insts[i].size <= functionEnd
       /\ i > 1 => insts[i - 1].pc < insts[i].pc
  /\ decState = "done" =>
       IF Len(insts) = 0 THEN functionStart = functionEnd
       ELSE insts[Len(insts)].pc + insts[Len(insts)].size = functionEnd

\* A 3-byte opcode in the last byte of the range: a placeholder, and the
\* range is still tiled.
C4_Witness ==
  /\ decState = "done"
  /\ Len(code) = 3
  /\ code[1] = 2 /\ code[3] = 3
  /\ Len(insts) = 2
  /\ insts[2].text = Marker /\ insts[2].pc = functionStart + 2

\* C5: an undecodable sequence at address a yields exactly one placeholder
\* at pc = a of one byte with the marker text, decoding resumes at a + 1,
\* the bytes before and after are decoded as they are without the bad byte,
\* and decoding always ends.
BadAt(i) == Undecodable(code, insts[i].pc - functionStart)

C5_PlaceholderStep ==
  \A i \in 1 .. Len(insts) :
    BadAt(i) =>
      LET a == insts[i].pc
          off == a - functionStart
      IN /\ insts[i].size = 1
         /\ insts[i].text = Marker /\ insts[i].text # ""
         /\ \A k \in 1 .. Len(insts) : insts[k].pc = a => k = i
         /\ IF i < Len(insts) THEN insts[i + 1].pc = a + 1 ELSE decPc = a + 1
         /\ SubSeq(insts, 1, i - 1)
              = DecodeFrom(SubSeq(code, 1, off), 0, functionStart)
         /\ decState = "done" =>
              SubSeq(insts, i + 1, Len(insts))
                = DecodeFrom(SubSeq(code, off + 2, Len(code)), 0, a + 1)

C5_PlaceholderResumes ==
  /\ [](C5_PlaceholderStep /\ (decState = "done" => decPc = functionEnd))
  /\ <>(decState = "done")

\* Scenario C: one bad byte between two valid instructions.
C5_Witness ==
  /\ decState = "done"
  /\ code = <<1, 0, 2, 1>>
  /\ Len(insts) = 3
  /\ insts[1].text = "op" /\ insts[2].text = Marker /\ insts[3].text = "op"
  /\ insts[2].pc = functionStart + 1 /\ insts[3].pc = functionStart + 2

\* ---------------------------------------------- claims on source blocks
\* The instruction indices (from 0) a list of index ranges covers.
Covered(ranges) ==
  UNION {ranges[k].from .. ranges[k].to - 1 : k \in 1 .. Len(ranges)}

InSomeBlock(f, l) ==
  \E k \in 1 .. Len(sources[f]) : sources[f][k].from <= l /\ l < sources[f][k].to

\* C6: the blocks of a file are ordered by line and pairwise disjoint,
\* related[i] is about line fromLine + i, and the related index ranges of
\* the file's blocks cover exactly the instructions of that file whose line
\* lies in some block.
C6_BlocksOfFile(f) ==
  LET bs == sources[f]
  IN /\ \A j \in 1 .. Len(bs) : \A k \in 1 .. Len(bs) :
          j < k => bs[j].to <= bs[k].from
     /\ \A k \in 1 .. Len(bs) :
          /\ bs[k].from < bs[k].to
          /\ Len(bs[k].lines) = bs[k].to - bs[k].from
          /\ Len(bs[k].related) = Len(bs[k].lines)
          /\ \A i \in 1 .. Len(bs[k].related) :
               /\ bs[k].lines[i] = LineText(f, bs[k].from + i - 1)
               /\ \A x \in Covered(bs[k].related[i]) :
                    /\ x + 1 \in 1 .. Len(srcInsts)
                    /\ srcInsts[x + 1].file = f
                    /\ srcInsts[x + 1].line = bs[k].from + i - 1
     /\ UNION {UNION {Covered(bs[k].related[i]) :
                        i \in 1 .. Len(bs[k].related)} : k \in 1 .. Len(bs)}
          = {x \in 0 .. Len(srcInsts) - 1 :
               srcInsts[x + 1].file = f /\ InSomeBlock(f, srcInsts[x + 1].line)}

C6_SourceBlocks ==
  \A f \in Files : f \notin sbTodo => C6_BlocksOfFile(f)

\* Context 1: two blocks of a.go (lines 1 and 7 are too far apart to
\* merge), an instruction of b.go between the two instructions of a.go.
C6_Witness ==
  /\ sbState = "done"
  /\ contextLines = 1
  /\ srcInsts = <<[file |-> "a.go", line |-> 1], [file |-> "b.go", line |-> 1],
                  [file |-> "a.go", line |-> MaxLine]>>
  /\ fileLen = [f \in Files |-> IF f = "a.go" THEN MaxLine ELSE 1]
  /\ Len(sources["a.go"]) = 2
  /\ sources["a.go"][1].related[1] = <<[from |-> 0, to |-> 1]>>
  /\ sources["a.go"][2].related[2] = <<[from |-> 2, to |-> 3]>>
  /\ Len(sources["b.go"]) = 1

\* ------------------------------------------------ claims on the server
\* Handler h takes a step out of pc.
Leaves(h, pc) == hPc[h] = pc /\ hPc'[h] # pc

\* C7: a load-by-path of a path that is in the registry answers 200, does
\* not invoke the loader and leaves the registry as it is: the path still
\* maps to the same Executable.
C7_LoadRegistered ==
  \A h \in Handlers :
    /\ (Leaves(h, "check") /\ activeFiles[hPath[h]] # NoExe) =>
         /\ hFile'[h] = activeFiles[hPath[h]]
         /\ activeFiles' = activeFiles
    /\ (Leaves(h, "checked") /\ hFile[h] # NoExe) =>
         /\ resp'[h].code = StatusOK
         /\ hPc'[h] = "idle"
         /\ nextExe' = nextExe
         /\ activeFiles' = activeFiles

C7_AddIdempotent == [][C7_LoadRegistered]_vars

\* A second load of a registered path was answered 200 and the one
\* Executable loaded is still the entry.
C7_Witness ==
  /\ \E h \in Handlers :
       /\ hKind[h] = "load" /\ hPc[h] = "idle"
       /\ resp[h].code = StatusOK
       /\ hFile[h] = activeFiles[hPath[h]]
       /\ activeFiles[hPath[h]] = 1
  /\ nextExe = 2

\* C8: once a close-by-path of p has removed the entry, Close has been
\* called on the Executable when the request is answered 200, and until p is
\* stored again every list-functions, get-function-code and close-by-path
\* for p finds no entry and answers 404.
C8_AfterCloseStep ==
  \A h \in Handlers :
    /\ (Leaves(h, "close") /\ resp'[h].code = StatusOK) => hFile[h] \in closed'
    /\ ((Leaves(h, "lookup") \/ Leaves(h, "delete")) /\ sinceClose[hPath[h]]) =>
         hFile'[h] = NoExe
    /\ ((Leaves(h, "looked") \/ Leaves(h, "deleted")) /\ hFile[h] = NoExe) =>
         /\ resp'[h].code = StatusNotFound
         /\ hPc'[h] = "idle"

C8_ClosedIsNotFound ==
  /\ [](\A p \in Paths : sinceClose[p] => activeFiles[p] = NoExe)
  /\ [][C8_AfterCloseStep]_vars

\* p was loaded, closed (its Executable 1 is closed), and a later request
\* for p was answered 404.
C8_Witness ==
  /\ \E p \in Paths : sinceClose[p]
  /\ 1 \in closed
  /\ \E h \in Handlers :
       /\ hKind[h] \in {"funcs", "code", "close"}
       /\ hPath[h] \in Paths
       /\ sinceClose[hPath[h]]
       /\ hPc[h] = "idle"
       /\ resp[h].code = StatusNotFound
  /\ started = 3

\* C9: no request calls Funcs() or Load() on an Executable on which Close()
\* has been called.
C9_NoUseAfterCloseStep ==
  \A h \in Handlers :
    (Leaves(h, "funcs") \/ Leaves(h, "find") \/ Leaves(h, "loadcode")) =>
      hFile[h] \notin closed

C9_NoUseAfterClose == [][C9_NoUseAfterCloseStep]_vars

\* C11: a list-functions request whose filter does not compile is answered
\* 400 and changes no registry entry; a list-functions request with a valid
\* or empty filter is answered with the functions of the file that match,
\* the same list whether or not an invalid filter was answered before.
C11_FuncsStep ==
  \A h \in Handlers :
    Leaves(h, "funcs") =>
      /\ hFilter'[h] = "(" =>
           /\ resp'[h].code = StatusBadRequest
           /\ activeFiles' = activeFiles /\ closed' = closed /\ live' = live
      /\ hFilter'[h] = "" => resp'[h] = Response(StatusOK, ExeFuncs)
      /\ hFilter'[h] = "run" => resp'[h] = Response(StatusOK, <<"main.run">>)

C11_InvalidFilter == [][C11_FuncsStep]_vars

\* An invalid filter was answered for the path before this request came,
\* and this request got the filtered list.
C11_Witness ==
  \E h \in Handlers :
    /\ hKind[h] = "funcs" /\ hPc[h] = "idle" /\ hLate[h]
    /\ hFilter[h] = "run"
    /\ resp[h] = Response(StatusOK, <<"main.run">>)

\* C12: list-functions, get-function-code and close-by-path for a path that
\* is not registered, and get-function-code for a name the file does not
\* have, answer 404; the request changes no registry entry and returns
\* before any Load or Close is called.
C12_NotFoundStep ==
  \A h \in Handlers :
    /\ (Leaves(h, "lookup") \/ Leaves(h, "delete"))
         /\ activeFiles[hPath[h]] = NoExe =>
           hFile'[h] = NoExe /\ activeFiles' = activeFiles
    /\ (Leaves(h, "looked") \/ Leaves(h, "deleted")) /\ hFile[h] = NoExe =>
         resp'[h].code = StatusNotFound /\ hPc'[h] = "idle"
    /\ Leaves(h, "find") /\ hPc'[h] = "loadcode" =>
         \E i \in 1 .. Len(ExeFuncs) : ExeFuncs[i] = resp'[h].body
    /\ resp[h].code # StatusNotFound /\ resp'[h].code = StatusNotFound =>
         /\ hPc[h] \in {"looked", "deleted", "find"}
         /\ hPc'[h] = "idle"
         /\ activeFiles' = activeFiles /\ closed' = closed /\ live' = live

C12_NotFound == [][C12_NotFoundStep]_vars

\* A close of an unregistered path and a get-function-code for an unknown
\* name of a registered file were both answered 404.
C12_Witness ==
  /\ \E h \in Handlers :
       /\ hKind[h] = "code" /\ hPc[h] = "idle"
       /\ resp[h].code = StatusNotFound
       /\ hFile[h] # NoExe /\ activeFiles[hPath[h]] = hFile[h]
  /\ \E h \in Handlers :
       /\ hKind[h] = "close" /\ hPc[h] = "idle"
       /\ resp[h].code = StatusNotFound

\* C13: a load whose loader fails answers 500 and returns at once: nothing
\* is stored and no registry entry changes; a load of a path that is not
\* registered always calls the loader, also after a failure; every entry of
\* the registry is an Executable a loader returned.
C13_LoadFailStep ==
  \A h \in Handlers :
    /\ Leaves(h, "load") /\ resp'[h].code = StatusInternalServerError =>
         /\ hPc'[h] = "idle"
         /\ hFile'[h] = NoExe /\ nextExe' = nextExe
         /\ activeFiles' = activeFiles /\ live' = live
    /\ Leaves(h, "checked") /\ hFile[h] = NoExe => hPc'[h] = "load"

C13_LoadFailure ==
  /\ [](\A h \in Handlers : hPc[h] \in {"store", "stored"} =>
          /\ hFile[h] # NoExe
          /\ resp[h].code # StatusInternalServerError)
  /\ [][C13_LoadFailStep]_vars

\* A load of the path had failed before this load came; this one loaded the
\* file and stored it.
C13_Witness ==
  \E h \in Handlers :
    /\ hKind[h] = "load" /\ hPc[h] = "idle" /\ hLate[h]
    /\ resp[h].code = StatusCreated
    /\ activeFiles[hPath[h]] = hFile[h]

\* C14: a goroutine in the loader, in Funcs(), in Load() or in Close() holds
\* neither side of activeFilesMutex; the write side is held only from the
\* map insert or delete to the Unlock that follows it.
C14_NoLockWhileDecoding ==
  \A h \in Handlers :
    /\ hPc[h] \in {"load", "funcs", "find", "loadcode", "close"} =>
         h \notin rwReaders /\ rwWriter # h
    /\ rwWriter = h => hPc[h] \in {"stored", "deleted"}
    /\ h \in rwReaders => hPc[h] \in {"checked", "looked", "listed"}

\* One goroutine is in Load() while another holds the write lock.
C14_Witness ==
  \E h, g \in Handlers :
    /\ hPc[h] = "loadcode"
    /\ rwWriter = g /\ hPc[g] = "deleted"

\* C15: a read request waits for the lock only while a writer holds it or
\* waits for it, never for readers; once it has the read side, and while it
\* decodes, each of its steps can be taken whatever the other requests do.
C15_ReadsDoNotBlock ==
  \A h \in Handlers :
    /\ hPc[h] \in {"lookup", "listing"} /\ rwWriter = 0 /\ rwPending = {} =>
         ENABLED (Lookup(h) \/ ListRead(h))
    /\ hPc[h] \in {"looked", "listed", "funcs", "find", "loadcode"} =>
         ENABLED (LookupUnlock(h) \/ ListUnlock(h) \/ FuncsList(h)
                    \/ CodeFind(h) \/ CodeLoad(h))

\* Two read requests hold the read side at the same time.
C15_Witness ==
  /\ Cardinality(rwReaders) >= 2
  /\ \E h \in rwReaders : hKind[h] = "funcs"
  /\ \E h \in rwReaders : hKind[h] \in {"code", "list"}

\* Two read requests decode at the same time.
C15_WitnessDecoding ==
  \E h, g \in Handlers :
    h # g /\ hPc[h] = "loadcode" /\ hPc[g] \in {"funcs", "loadcode"}

\* C17: list-loaded-paths answers with exactly the paths that a load stored
\* and no close has deleted since.
C17_ListStep ==
  \A h \in Handlers :
    Leaves(h, "listed") => resp'[h] = Response(StatusOK, resp[h].body)

C17_ListIsLive ==
  /\ [](\A h \in Handlers : hPc[h] = "listed" => resp[h].body = live)
  /\ [][C17_ListStep]_vars

\* /p was loaded and closed; the list read after that is empty.
C17_Witness ==
  /\ sinceClose["/p"] /\ 1 \in closed
  /\ \E h \in Handlers :
       hKind[h] = "list" /\ hPc[h] = "listed" /\ resp[h].body = {}

\* /p is registered; the list read is {/p}.
C17_WitnessLoaded ==
  \E h \in Handlers :
    /\ hKind[h] = "list" /\ hPc[h] = "idle"
    /\ resp[h] = Response(StatusOK, {"/p"})

\* C19: a close-by-path of a registered path whose Close() returned an error
\* is answered 500.
C19_CloseErrorIs500 ==
  \A h \in Handlers :
    hKind[h] = "close" /\ hPc[h] = "idle" /\ hFile[h] \in closeErr =>
      resp[h].code = StatusInternalServerError

\* C21: once the load-by-path requests have finished, every Executable a
\* loader returned is the registry's entry of some path or has been closed:
\* none was overwritten in the map and left open.
C21_NoOverwrittenExecutable ==
  (\A h \in Handlers : hPc[h] = "idle") =>
    \A e \in 1 .. nextExe - 1 :
      e \in closed \/ \E p \in Paths : activeFiles[p] = e

\* C29: no request changes the server's options; get-function-code decodes
\* with the context of its parameter or, without one, with the server's.
C29_OverrideStep ==
  /\ options' = options
  /\ \A h \in Handlers :
       /\ Leaves(h, "find") /\ hPc'[h] = "loadcode" =>
            hCtx'[h] \in {options, 7}
       /\ Leaves(h, "loadcode") /\ resp'[h].code = StatusOK =>
            resp'[h].body.context = hCtx[h]

C29_ContextOverrideIsLocal == [][C29_OverrideStep]_vars

\* Two get-function-code requests are decoding at once, one with the
\* context 7 of its parameter, one with the server's.
C29_Witness ==
  \E h, g \in Handlers :
    /\ hPc[h] = "loadcode" /\ hCtx[h] = 7
    /\ hPc[g] = "loadcode" /\ hCtx[g] = options

\* ------------------------------------------ claims on the reload channels
\* C10: the consumer loop of FileUI.Run never receives a result, an
\* Executable or an error, that was produced earlier than a result it has
\* already received: the ids it receives are strictly increasing.
C10_NeverOlderAfterNewer ==
  \A i, j \in 1..Len(received) :
    i < j => received[i] < received[j]

\* What the two channels do give: each channel on its own delivers in order.
C10_InOrderPerChannel ==
  /\ uiFile = 0 \/ \A k \in 1..Len(fileLoaded) : uiFile < fileLoaded[k]
  /\ uiLoadError = 0
       \/ \A k \in 1..Len(fileLoadError) : uiLoadError < fileLoadError[k]

\* ------------------------------------------------ claims on the watcher
\* The channel loadFinished sends the pending result on.
ResultChan == IF wRes.ok THEN fileLoaded ELSE fileLoadError

\* C16 as stated: in watch mode, once os.Stat had failed, the poll in which
\* the file is readable again loads it.
C16_PollReloadsStep ==
  (watch /\ ~serverMode /\ wPc = "stat" /\ statFailed /\ ~statFailed') =>
    wPc' = "drain"

C16_ReloadsWhenReadable == [][C16_PollReloadsStep]_vars

\* C16, amended: in watch mode a failed stat or load never ends the watcher
\* goroutine (it ends only once the window exited), its send never blocks,
\* the next poll can always start, every failed stat produces an error
\* result, every error put into the channel reaches the consumer unless a
\* newer error replaces it or the window exits, and a poll that finds a
\* modification time other than the recorded one loads the file and
\* delivers the result.
C16_PollStep ==
  (watch /\ ~serverMode /\ wPc = "stat" /\ wPc' # "stat") =>
    /\ statFailed' => wPc' = "drain" /\ ~wRes'.ok /\ wRes'.id = produced + 1
    /\ lastModTime' # lastModTime =>
         wPc' = "drain" /\ wRes'.id = produced + 1
    /\ ~statFailed' /\ lastModTime' = lastModTime =>
         wPc' = "check" /\ produced' = produced

C16_WatcherSurvives ==
  /\ [](watch /\ ~serverMode /\ wPc = "done" => exited)
  /\ [](wPc = "send" => CanSend(ResultChan))
  /\ [](wPc = "wait" => ENABLED WatcherTick)
  /\ [][C16_PollStep]_vars
  /\ \A k \in 1 .. MaxResults :
       (fileLoadError = <<k>>) ~>
         (uiLoadError = k \/ exited \/ (~wRes.ok /\ wRes.id > k))

\* The consumer was given the error of a failed poll and, later, the
\* Executable of a poll that found the file changed; the watcher polls on.
C16_Witness ==
  /\ watch /\ ~serverMode /\ ~exited
  /\ uiLoadError = 1 /\ uiFile = 2
  /\ received = <<1, 2>>
  /\ wPc = "wait"

\* The file was loaded, then os.Stat failed, then the file was back with the
\* modification time recorded before: nothing is loaded.
C16_WitnessSameModTime ==
  /\ watch /\ ~serverMode
  /\ wPc = "check" /\ ~statFailed
  /\ ~wRes.ok /\ wRes.id = 2 /\ produced = 2
  /\ uiFile = 1

\* ------------------------------------------- claims on the remote variant
\* C18: a NetworkFunc.Load that failed because the request timed out does
\* not give its caller what a Load gives that failed in the server's decode.
C18_TimeoutIsDistinct ==
  (cPc = "done" /\ cOp = "load" /\ cCause = "timeout") =>
    cRet # NetworkFuncLoad(GetFunctionCode(
             ServeCode(TRUE, cName, cQuery, cDefault, FALSE)))

\* What the layer below keeps: the errors of GetFunctionCode and of
\* NetworkFile.Close name the transport failure.
C18_ErrorKeepsCause ==
  (cPc = "done" /\ cCause \in TransportErrs) =>
    \/ cErr.detail = cCause
    \/ cErr.msg = cCause

\* C20: a NetworkFunc.Load with context c that succeeds returns the code
\* the server-side function gives when loaded with context c.
C20_ContextForwarded ==
  (cPc = "done" /\ cOp = "load" /\ cCause = "ok") =>
    cRet = Code(cName, cCtx)

\* With a context above 0 the caller's context is the one used.
C20_PositiveContextForwarded ==
  (cPc = "done" /\ cOp = "load" /\ cCause = "ok" /\ cCtx > 0) =>
    cRet = Code(cName, cCtx)


\* An accepted load-by-path has been answered since the file changed, and
\* the server answers a get-function-code request with a Code.
C24_Answers ==
  /\ cPc = "sent" /\ cOp = "load" /\ cReopened
  /\ cPc' = "replied" /\ cNet'.status = StatusOK

\* C24: the Code the server returns after the file changed and was loaded by
\* path again comes from the file as it is on disk.
C24_AnsweredFromChangedFile == [][C24_Answers => cSeen' = cDisk]_vars

\* ----------------------------------- claims on the line-table resolver
\* The entries whose address is not greater than the query.
C26_NotGreater == {i \in 1 .. Len(lnTable) : lnTable[i].address <= lnQuery}

\* The query lies before the first entry or in a gap between the ranges.
C26_InGap ==
  \A i \in 1 .. Len(lnTable) :
    lnQuery < lnTable[i].address \/ lnQuery >= lnTable[i].address + lnTable[i].size

\* C26: the lookup of an address in the range of an entry returns the
\* (file, line) of the entry with the greatest address not greater than the
\* address; before the first entry and in a gap it returns "unknown"; the
\* result is always a (file, line) of the table or "unknown".
C26_NearestNotGreater ==
  lnState = "done" =>
    /\ ~C26_InGap =>
         \E i \in C26_NotGreater :
           /\ \A j \in C26_NotGreater : j <= i
           /\ lnResult = [file |-> lnTable[i].file, line |-> lnTable[i].line]
    /\ C26_InGap => lnResult = Unknown
    /\ \/ lnResult = Unknown
       \/ \E i \in 1 .. Len(lnTable) :
            lnResult = [file |-> lnTable[i].file, line |-> lnTable[i].line]

\* A lookup in the gap between the first and the second of three entries
\* gave "unknown".
C26_Witness ==
  /\ lnState = "done"
  /\ Len(lnTable) = 3
  /\ lnTable[1].address + lnTable[1].size <= lnQuery
  /\ lnQuery < lnTable[2].address
  /\ lnResult = Unknown

\* ------------------------------------ claims on the reference resolver
\* Instruction i is a jump or branch whose target lies inside the function.
C27_IntraJump(i) ==
  xOps[i].kind \in {"jmp", "jcc"} /\ InFunction(xOps[i].target)

\* Outside the intra-function jumps the three reference fields are zero; an
\* intra-function jump has the target address as refPC; call names the
\* symbol of the binary that the target of a call or jump resolves to.
C27_Fields(i) ==
  /\ ~C27_IntraJump(i) =>
       xOut[i].refPC = 0 /\ xOut[i].refOffset = 0 /\ xOut[i].refStack = 0
  /\ C27_IntraJump(i) => xOut[i].refPC = xOps[i].target
  /\ xOut[i].call # "" =>
       /\ xOps[i].kind \in Transfers
       /\ ~C27_IntraJump(i)
       /\ xOut[i].call = OtherSym.name
       /\ xOps[i].target >= OtherSym.address
       /\ xOps[i].target < OtherSym.address + OtherSym.size

C28_Singleton ==
  /\ Cardinality(OpenPanels) <= 1
  /\ currentPanel # 0 <=> OpenPanels # {}
  /\ currentPanel # 0 => panels[currentPanel] = "open"

C28_ShowStep ==
  /\ OpenPanels # {} => panels' \in {panels} \cup
                          {[panels EXCEPT ![p] = "disposed"] : p \in PanelIds}
  /\ revealed' # revealed /\ revealed' # 0 => OpenPanels = {revealed'}
  /\ nextPanel' # nextPanel =>
       /\ OpenPanels = {}
       /\ nextPanel' = nextPanel + 1
       /\ OpenPanels' = {nextPanel}
       /\ currentPanel' = nextPanel

\* C28: at most one panel is not disposed and currentPanel is that panel
\* exactly when there is one; no panel is created while one exists, a show
\* then reveals the one that exists, and a show without one creates one
\* panel, which becomes the current one.
C28_PanelIsSingleton == []C28_Singleton /\ [][C28_ShowStep]_vars

\* The second panel was created after the first was disposed, a show then
\* revealed it, and it is the only panel that is not disposed.
C28_Witness ==
  /\ panels[1] = "disposed"
  /\ panels[2] = "open"
  /\ currentPanel = 2
  /\ revealed = 2

\* ------------------------------------------- claims on the window (FileUI)
\* C22: once the last result the consumer received is a successful load
\* produced after the last error it received, ui.LoadError is nil and no
\* frame draws the error.
C22_ErrorClearedByNewerLoad ==
  (/\ Len(received) > 0
   /\ uiFile # 0
   /\ received[Len(received)] = uiFile
   /\ uiFile > uiLoadError) =>
    uiLoadError = 0 /\ uiShown.error = 0

\* The poll that is running leaves os.Stat and what follows it.
C23_Polls == wPc = "stat" /\ wPc' # "stat"

\* C23 as stated: the first poll always calls the loader.
C23_FirstPollLoads ==
  [][C23_Polls /\ produced = 0 /\ lastModTime = 0 => wLoaded']_vars

C23_PollStep ==
  C23_Polls =>
    /\ wLoaded' <=> (~statFailed' /\ wMt' # lastModTime)
    /\ ~statFailed' /\ lastModTime = 0 => wLoaded'
    /\ ~statFailed' /\ wMt' = lastModTime =>
         /\ ~wLoaded'
         /\ produced' = produced
         /\ wPc' = "check"
         /\ fileLoaded' = fileLoaded /\ fileLoadError' = fileLoadError
    /\ lastModTime' = IF wLoaded' THEN wMt' ELSE lastModTime

\* C23: a poll calls the loader exactly when its stat succeeds with a time
\* other than the one recorded; the first successful stat loads, an unchanged
\* time loads and delivers nothing, and the time is recorded whether the
\* load succeeds or fails, so a failed load is not repeated for that time.
C23_LoadsOnChangedModTime == [][C23_PollStep]_vars

\* The only load failed, and the next poll, which found the file with the
\* time of that load, did not call the loader.
C23_Witness ==
  /\ wPc = "check"
  /\ produced = 1 /\ ~wRes.ok
  /\ lastModTime = 1 /\ wMt = 1 /\ ~statFailed
  /\ ~wLoaded

\* C35: no Load that yields no Code makes Run dereference the absent Code.
C35_NoNilDereference == ~uiFault

\* C25: the Code a frame draws is a Code of the file installed.
C25_CodeFromInstalledFile ==
  uiShown.code # NoFunc => uiShown.code.exe = uiFile

C30_ChannelsHoldLatest ==
  /\ Len(fileLoaded) <= ChanCap /\ Len(fileLoadError) <= ChanCap
  /\ fileLoaded # <<>> => Head(fileLoaded) = wLatest.file
  /\ fileLoadError # <<>> => Head(fileLoadError) = wLatest.err
  /\ wPc = "send" => IF wRes.ok THEN fileLoaded = <<>>
                                ELSE fileLoadError = <<>>

\* C30: whatever the consumer does, a call of loadFinished that has begun
\* completes; each channel holds at most one value, the latest result of its
\* kind whose call has completed.
C30_LoadFinishedNeverBlocks ==
  /\ []C30_ChannelsHoldLatest
  /\ (wPc \in {"drain", "send"}) ~> (wPc \notin {"drain", "send"})

\* The consumer has received nothing; the second file replaced the first
\* in the channel and the call returned.
C30_Witness ==
  /\ received = <<>>
  /\ produced = 2
  /\ fileLoaded = <<2>> /\ fileLoadError = <<>>
  /\ wPc = "check"

\* C31: the event goroutine and the main loop move in lock-step: an event is
\* fetched only when every earlier one was acknowledged, no event is
\* acknowledged twice or before it was received, and every fetched event,
\* whatever its type, is received and acknowledged (unless Run panicked).
C31_LockStep ==
  /\ evAcked <= evSent
  /\ evSent <= evFetched
  /\ evFetched <= evAcked + 1
  /\ pumpPc \in {"event", "done"} => evAcked = evFetched
  /\ pumpPc = "send" => evSent = evAcked /\ evFetched = evSent + 1

C32_Delivered == mainPc = "handle" /\ pumpEv = "destroy"

\* The watcher is at os.Stat with every modelled result used up: the
\* model's bound on the polls, not a blocked goroutine.
C32_PollsExhausted == wPc = "stat" /\ produced = MaxResults /\ lastModTime = 0

C32_AllReturned ==
  /\ mainPc = "returned"
  /\ exited
  /\ pumpPc = "done"
  /\ wPc = "done" \/ C32_PollsExhausted

C32_DestroyEndsEveryGoroutine == C32_Delivered ~> C32_AllReturned

C32_Witness ==
  /\ mainPc = "returned"
  /\ pumpPc = "done"
  /\ wPc = "done"
  /\ watch
  /\ ~serverMode
  /\ produced > 0

\* C33: a close deletes the registry entry of its path however many loads
\* were answered for it, and closes the Executable; a list-functions or
\* get-function-code request that looks the path up afterwards, such as the
\* other client's next one, is answered NotFound.
C33_CloseStep ==
  \A h \in Handlers :
    /\ (hPc[h] = "delete" /\ hPc'[h] = "deleted" /\ activeFiles[hPath[h]] # NoExe)
         => activeFiles'[hPath[h]] = NoExe
    /\ (hPc[h] = "close" /\ hPc'[h] = "idle")
         => resp'[h].code = StatusOK /\ hFile[h] \in closed'
    /\ (hKind[h] \in {"funcs", "code"} /\ hPc[h] = "looked" /\ hPc'[h] # "looked"
          /\ hPath[h] \in orphans)
         => resp'[h].code = StatusNotFound /\ hPc'[h] = "idle"

C33_CloseIsNotReferenceCounted ==
  /\ [](\A p \in orphans : activeFiles[p] = NoExe)
  /\ [][C33_CloseStep]_vars

C33_Witness ==
  \E h, g \in Handlers :
    /\ hKind[h] \in {"funcs", "code"}
    /\ hPc[h] = "looked"
    /\ hFile[h] = NoExe
    /\ hPath[h] \in orphans
    /\ hKind[g] = "close"
    /\ hPath[g] = hPath[h]
    /\ hPc[g] = "idle"
    /\ resp[g].code = StatusOK
    /\ hFile[g] \in closed

\* C34: for every path p, absolute ones included, once NetworkFile.Close has
\* returned the registry has no entry for p: the close request reached the
\* close-by-path operation with the key NewNetworkFile registered.
C34_CloseRemovesEntry == rtPc = "closed" => rtPath \notin rtKeys /\ ~rtErr

\* What does hold: the round trip succeeds for a relative path whose
\* segments are all names.
C34_Plain ==
  /\ rtPath[1] # "/"
  /\ cleanPath(<<"/">> \o rtPath) = <<"/">> \o rtPath

C34_PlainPathRoundTrips ==
  (rtPc = "closed" /\ C34_Plain) => rtPath \notin rtKeys /\ ~rtErr

=============================================================================
